---- MODULE Spec2Model ----
(***************************************************************************)
(* Directive-aware merge engine of envvars-cli.                            *)
(*                                                                         *)
(* A Go string is a sequence of one-character strings, a map[string]string *)
(* is a function whose domain is a set of such sequences.  The operators   *)
(* below are the functions of sources/env_processor.go and of the json,    *)
(* yaml and sops readers; the actions are the statements of                *)
(* ProcessFileWithMerge and of MergeCommand.Execute.                       *)
(***************************************************************************)
EXTENDS Integers, Sequences, FiniteSets, TLC

VARIABLES existingKVs, file, pc, envFile, processedKVs, mergedVars, result, err,
          sources, options, idx, variablesMap, xpc, execErr, output

pfmVars == <<existingKVs, file, pc, envFile, processedKVs, mergedVars, result, err>>
execVars == <<sources, options, idx, variablesMap, xpc, execErr, output>>
vars == <<existingKVs, file, pc, envFile, processedKVs, mergedVars, result, err,
          sources, options, idx, variablesMap, xpc, execErr, output>>

----------------------------------------------------------------------------
(* Characters and the string functions of the Go library that the code uses *)

UpperSeq == <<"A","B","C","D","E","F","G","H","I","J","K","L","M",
              "N","O","P","Q","R","S","T","U","V","W","X","Y","Z">>
LowerSeq == <<"a","b","c","d","e","f","g","h","i","j","k","l","m",
              "n","o","p","q","r","s","t","u","v","w","x","y","z">>
UpperChars == {UpperSeq[i] : i \in 1..26}
LowerChars == {LowerSeq[i] : i \in 1..26}
DigitChars == {"0","1","2","3","4","5","6","7","8","9"}

\* the white space that can occur inside a line of a file
SpaceChars == {" ", "\t", "\r"}

IsSpace(c) == c \in SpaceChars

ToLowerChar(c) ==
  IF c \in UpperChars THEN LowerSeq[CHOOSE i \in 1..26 : UpperSeq[i] = c] ELSE c

ToUpperChar(c) ==
  IF c \in LowerChars THEN UpperSeq[CHOOSE i \in 1..26 : LowerSeq[i] = c] ELSE c

ToLower(s) == [i \in 1..Len(s) |-> ToLowerChar(s[i])]

ToUpper(s) == [i \in 1..Len(s) |-> ToUpperChar(s[i])]

EqualFold(s, t) == ToLower(s) = ToLower(t)

HasPrefix(s, p) == Len(s) >= Len(p) /\ SubSeq(s, 1, Len(p)) = p

HasSuffix(s, p) == Len(s) >= Len(p) /\ SubSeq(s, Len(s) - Len(p) + 1, Len(s)) = p

TrimPrefix(s, p) == IF HasPrefix(s, p) THEN SubSeq(s, Len(p) + 1, Len(s)) ELSE s

Contains(s, c) == \E i \in 1..Len(s) : s[i] = c

\* index of the first c in s, 0 when c does not occur
IndexOf(s, c) ==
  IF Contains(s, c)
  THEN CHOOSE i \in 1..Len(s) : s[i] = c /\ \A j \in 1..(i-1) : s[j] # c
  ELSE 0

\* number of leading characters of s that satisfy the cutset test
LeadCount(s, cut) ==
  CHOOSE n \in 0..Len(s) :
    /\ \A j \in 1..n : s[j] \in cut
    /\ (n < Len(s) => s[n+1] \notin cut)

TrailCount(s, cut) ==
  CHOOSE n \in 0..Len(s) :
    /\ \A j \in (Len(s)-n+1)..Len(s) : s[j] \in cut
    /\ (n < Len(s) => s[Len(s)-n] \notin cut)

\* strings.Trim(s, cutset): all leading and all trailing characters of the cutset
Trim(s, cut) ==
  LET a == LeadCount(s, cut)
      rest == SubSeq(s, a + 1, Len(s))
  IN SubSeq(rest, 1, Len(rest) - TrailCount(rest, cut))

TrimSpace(s) == Trim(s, SpaceChars)

\* strings.Fields: the maximal runs of non-space characters, in order
RECURSIVE Fields(_)
Fields(s) ==
  LET t == SubSeq(s, LeadCount(s, SpaceChars) + 1, Len(s))
  IN IF t = <<>> THEN <<>>
     ELSE LET n == IF \E i \in 1..Len(t) : IsSpace(t[i])
                   THEN (CHOOSE i \in 1..Len(t) :
                           IsSpace(t[i]) /\ \A j \in 1..(i-1) : ~IsSpace(t[j])) - 1
                   ELSE Len(t)
          IN <<SubSeq(t, 1, n)>> \o Fields(SubSeq(t, n + 1, Len(t)))

\* strings.SplitN(line, "=", 2) on a line that contains "="
SplitN(line) ==
  LET i == IndexOf(line, "=")
  IN <<SubSeq(line, 1, i - 1), SubSeq(line, i + 1, Len(line))>>

\* strings.ReplaceAll for a non-empty old: leftmost, non-overlapping
RECURSIVE ReplaceAll(_, _, _)
ReplaceAll(s, old, new) ==
  IF s = <<>> THEN <<>>
  ELSE IF HasPrefix(s, old)
       THEN new \o ReplaceAll(SubSeq(s, Len(old) + 1, Len(s)), old, new)
       ELSE <<Head(s)>> \o ReplaceAll(Tail(s), old, new)

----------------------------------------------------------------------------
(* Maps *)

EmptyMap == [k \in {} |-> <<>>]

MapDelete(m, ks) == [k \in DOMAIN m \ ks |-> m[k]]

MapPut(m, key, value) ==
  [k \in DOMAIN m \cup {key} |-> IF k = key THEN value ELSE m[k]]

\* the pair (map, error) that a Go function returns
\* an error: its format string, the %s argument, and the formats of the
\* errors it wraps with %w, outermost first
NoErr == [isNil |-> TRUE, fmt |-> "", arg |-> <<>>, cause |-> <<>>]
Errorf(f, a) == [isNil |-> FALSE, fmt |-> f, arg |-> a, cause |-> <<>>]
Wrap(f, e) == [isNil |-> FALSE, fmt |-> f, arg |-> e.arg, cause |-> <<e.fmt>> \o e.cause]
NilMap == [isNil |-> TRUE, kvs |-> EmptyMap]
SomeMap(m) == [isNil |-> FALSE, kvs |-> m]

----------------------------------------------------------------------------
(* sources/env_processor.go *)

\* ^[A-Za-z_][A-Za-z0-9_]*$
isValidKey(key) ==
  /\ Len(key) >= 1
  /\ key[1] \in UpperChars \cup LowerChars \cup {"_"}
  /\ \A i \in 2..Len(key) : key[i] \in UpperChars \cup LowerChars \cup DigitChars \cup {"_"}

\* an unquoting that takes one quote character from each end of a value of
\* two or more characters
unquoteValueOnePair(v) ==
  LET value == TrimSpace(v)
      inner == SubSeq(value, 2, Len(value) - 1)
  IN IF Len(value) >= 2 /\ HasPrefix(value, <<"'">>) /\ HasSuffix(value, <<"'">>)
     THEN ReplaceAll(inner, <<"\\", "'">>, <<"'">>)
     ELSE IF Len(value) >= 2 /\ HasPrefix(value, <<"\"">>) /\ HasSuffix(value, <<"\"">>)
          THEN ReplaceAll(inner, <<"\\", "\"">>, <<"\"">>)
          ELSE value

\* an unquoting that takes the quotes off a value that has one at either end
unquoteValueEitherEnd(v) ==
  LET value == TrimSpace(v)
  IN IF HasPrefix(value, <<"'">>) \/ HasSuffix(value, <<"'">>)
     THEN ReplaceAll(Trim(value, {"'"}), <<"\\", "'">>, <<"'">>)
     ELSE IF HasPrefix(value, <<"\"">>) \/ HasSuffix(value, <<"\"">>)
          THEN ReplaceAll(Trim(value, {"\""}), <<"\\", "\"">>, <<"\"">>)
          ELSE value

unquoteValue(v) ==
  LET value == TrimSpace(v)
  IN IF HasPrefix(value, <<"'">>) /\ HasSuffix(value, <<"'">>)
     THEN ReplaceAll(Trim(value, {"'"}), <<"\\", "'">>, <<"'">>)
     ELSE IF HasPrefix(value, <<"\"">>) /\ HasSuffix(value, <<"\"">>)
          THEN ReplaceAll(Trim(value, {"\""}), <<"\\", "\"">>, <<"\"">>)
          ELSE value

\* length of the match of \$\{([^}]+)\} at the head of v, 0 when there is none
RefMatchLen(v) ==
  IF /\ Len(v) >= 4
     /\ v[1] = "$"
     /\ v[2] = "{"
     /\ v[3] # "}"
     /\ \E j \in 4..Len(v) : v[j] = "}"
  THEN CHOOSE j \in 4..Len(v) : v[j] = "}" /\ \A i \in 4..(j-1) : v[i] # "}"
  ELSE 0

RECURSIVE resolveVariableReferences(_, _)
resolveVariableReferences(value, variables) ==
  IF value = <<>> THEN <<>>
  ELSE LET n == RefMatchLen(value)
       IN IF n > 0
          THEN LET varName == SubSeq(value, 3, n - 1)
               IN (IF varName \in DOMAIN variables
                   THEN variables[varName]
                   ELSE SubSeq(value, 1, n))
                  \o resolveVariableReferences(SubSeq(value, n + 1, Len(value)), variables)
          ELSE <<Head(value)>> \o resolveVariableReferences(Tail(value), variables)

parseDirective(line, lineNumber) ==
  LET directiveText == TrimSpace(TrimPrefix(line, <<"#">>))
      parts == Fields(directiveText)
  IN IF Len(parts) = 0
     THEN [err |-> Errorf("empty directive at line %d", <<>>),
           directive |-> [Name |-> <<>>, Arguments |-> <<>>, Line |-> 0]]
     ELSE [err |-> NoErr,
           directive |-> [Name |-> parts[1], Arguments |-> Tail(parts), Line |-> lineNumber]]

\* the test of line 180 alone: every "#" line that does not begin with "# "
\* is handed to parseDirective
IsDirectiveLineUnguarded(line) ==
  /\ HasPrefix(line, <<"#">>)
  /\ ~HasPrefix(line, <<"#", " ">>)

\* a test that asks for a character other than white space and "#" right
\* after the "#"
IsDirectiveLineStrict(line) ==
  /\ HasPrefix(line, <<"#">>)
  /\ Len(line) >= 2
  /\ ~IsSpace(line[2])
  /\ line[2] # "#"

\* the test of lines 180-183 (and 230-232): the line is handed to parseDirective
IsDirectiveLine(line) ==
  /\ HasPrefix(line, <<"#">>)
  /\ ~HasPrefix(line, <<"#", " ">>)
  /\ LET directiveText == TrimSpace(TrimPrefix(line, <<"#">>))
     IN directiveText # <<>> /\ ~HasPrefix(directiveText, <<" ">>)

\* the assignment test without the check of the key against the regex
IsAssignmentLineAnyKey(line) ==
  /\ line # <<>>
  /\ ~HasPrefix(line, <<"#">>)
  /\ Contains(line, "=")
  /\ TrimSpace(SubSeq(line, 1, IndexOf(line, "=") - 1)) # <<>>

\* the test of lines 199-207 (and 243-251): the line assigns a valid key
IsAssignmentLine(line) ==
  /\ line # <<>>
  /\ ~HasPrefix(line, <<"#">>)
  /\ Contains(line, "=")
  /\ LET key == TrimSpace(SplitN(line)[1])
     IN key # <<>> /\ isValidKey(key)

AssignedKey(line) == TrimSpace(SplitN(line)[1])

AssignedRaw(line) == TrimSpace(SplitN(line)[2])

\* a first pass that stores every assignment in the reference table, whether
\* or not its key is valid
RECURSIVE FirstPassAnyKey(_, _, _)
FirstPassAnyKey(lines, lineNumber, acc) ==
  IF lineNumber > Len(lines) \/ ~acc.err.isNil THEN acc
  ELSE LET line == TrimSpace(lines[lineNumber])
       IN IF IsDirectiveLine(line)
          THEN LET p == parseDirective(line, lineNumber)
               IN IF ~p.err.isNil
                  THEN FirstPassAnyKey(lines, lineNumber + 1,
                         [acc EXCEPT !.err = Wrap("failed to parse directive at line %d: %w", p.err)])
                  ELSE FirstPassAnyKey(lines, lineNumber + 1,
                         [acc EXCEPT !.Directives = Append(@, p.directive)])
          ELSE IF IsAssignmentLineAnyKey(line)
               THEN FirstPassAnyKey(lines, lineNumber + 1,
                      [acc EXCEPT !.variables =
                         MapPut(@, AssignedKey(line), unquoteValue(AssignedRaw(line)))])
               ELSE FirstPassAnyKey(lines, lineNumber + 1, acc)

\* first pass, lines 170-213: the directives in file order, the reference
\* table, and the first directive error
RECURSIVE FirstPass(_, _, _)
FirstPass(lines, lineNumber, acc) ==
  IF lineNumber > Len(lines) \/ ~acc.err.isNil THEN acc
  ELSE LET line == TrimSpace(lines[lineNumber])
       IN IF IsDirectiveLine(line)
          THEN LET p == parseDirective(line, lineNumber)
               IN IF ~p.err.isNil
                  THEN FirstPass(lines, lineNumber + 1,
                         [acc EXCEPT !.err = Wrap("failed to parse directive at line %d: %w", p.err)])
                  ELSE FirstPass(lines, lineNumber + 1,
                         [acc EXCEPT !.Directives = Append(@, p.directive)])
          ELSE IF IsAssignmentLine(line)
               THEN FirstPass(lines, lineNumber + 1,
                      [acc EXCEPT !.variables =
                         MapPut(@, AssignedKey(line), unquoteValue(AssignedRaw(line)))])
               ELSE FirstPass(lines, lineNumber + 1, acc)

\* a second pass that resolves a reference only against the assignments on
\* the lines above it
RECURSIVE SecondPassEarlierOnly(_, _, _, _)
SecondPassEarlierOnly(lines, lineNumber, variables, acc) ==
  IF lineNumber > Len(lines) THEN acc
  ELSE LET line == TrimSpace(lines[lineNumber])
           earlier == FirstPass(SubSeq(lines, 1, lineNumber - 1), 1,
                        [Directives |-> <<>>, variables |-> EmptyMap, err |-> NoErr]).variables
       IN IF ~IsDirectiveLine(line) /\ IsAssignmentLine(line)
          THEN SecondPassEarlierOnly(lines, lineNumber + 1, variables,
                 Append(acc, [Key |-> AssignedKey(line),
                              Value |-> resolveVariableReferences(
                                          unquoteValue(AssignedRaw(line)), earlier)]))
          ELSE SecondPassEarlierOnly(lines, lineNumber + 1, variables, acc)

\* a second pass that scans the substituted text once more
RECURSIVE SecondPassRescan(_, _, _, _)
SecondPassRescan(lines, lineNumber, variables, acc) ==
  IF lineNumber > Len(lines) THEN acc
  ELSE LET line == TrimSpace(lines[lineNumber])
       IN IF ~IsDirectiveLine(line) /\ IsAssignmentLine(line)
          THEN SecondPassRescan(lines, lineNumber + 1, variables,
                 Append(acc, [Key |-> AssignedKey(line),
                              Value |-> resolveVariableReferences(
                                          resolveVariableReferences(
                                            unquoteValue(AssignedRaw(line)), variables),
                                          variables)]))
          ELSE SecondPassRescan(lines, lineNumber + 1, variables, acc)

\* second pass, lines 220-264: the emitted variables in file order
RECURSIVE SecondPass(_, _, _, _)
SecondPass(lines, lineNumber, variables, acc) ==
  IF lineNumber > Len(lines) THEN acc
  ELSE LET line == TrimSpace(lines[lineNumber])
       IN IF ~IsDirectiveLine(line) /\ IsAssignmentLine(line)
          THEN SecondPass(lines, lineNumber + 1, variables,
                 Append(acc, [Key |-> AssignedKey(line),
                              Value |-> resolveVariableReferences(
                                          unquoteValue(AssignedRaw(line)), variables)]))
          ELSE SecondPass(lines, lineNumber + 1, variables, acc)

EmptyEnvFile == [Variables |-> <<>>, Directives |-> <<>>]

parseEnvFile(f) ==
  IF ~f.exists
  THEN [err |-> Errorf("failed to open file '%s': %w", <<>>), envFile |-> EmptyEnvFile]
  ELSE LET p1 == FirstPass(f.lines, 1,
                   [Directives |-> <<>>, variables |-> EmptyMap, err |-> NoErr])
       IN IF ~p1.err.isNil
          THEN [err |-> p1.err, envFile |-> EmptyEnvFile]
          ELSE [err |-> NoErr,
                envFile |-> [Variables |-> SecondPass(f.lines, 1, p1.variables, <<>>),
                             Directives |-> p1.Directives]]

KwRemove == <<"r","e","m","o","v","e">>
KwRequire == <<"r","e","q","u","i","r","e">>
KwFilter == <<"f","i","l","t","e","r">>
KwFilterUnless == <<"f","i","l","t","e","r","-","u","n","l","e","s","s">>

\* regexp.MatchString for the expressions that occur here: "^", "$", a
\* literal character, ".", and each of the last two followed by "*".
\* MatchHere: re matches a prefix of text; atStart: text begins the input.
RECURSIVE MatchHere(_, _, _)
MatchHere(re, text, atStart) ==
  IF re = <<>> THEN TRUE
  ELSE IF Head(re) = "^" THEN atStart /\ MatchHere(Tail(re), text, atStart)
  ELSE IF Head(re) = "$" THEN text = <<>> /\ MatchHere(Tail(re), text, atStart)
  ELSE IF Len(re) >= 2 /\ re[2] = "*"
       THEN \E n \in 0..Len(text) :
              /\ \A m \in 1..n : (re[1] = "." /\ text[m] # "\n") \/ text[m] = re[1]
              /\ MatchHere(SubSeq(re, 3, Len(re)), SubSeq(text, n + 1, Len(text)),
                           atStart /\ n = 0)
       ELSE /\ text # <<>>
            /\ ((Head(re) = "." /\ Head(text) # "\n") \/ Head(re) = Head(text))
            /\ MatchHere(Tail(re), Tail(text), FALSE)

\* a match that may begin anywhere in text
MatchString(re, text) ==
  \E start \in 0..Len(text) :
    MatchHere(re, SubSeq(text, start + 1, Len(text)), start = 0)

\* the pattern turned into an expression that is not closed by "$"
matchesWildcardPatternOpenEnd(key, pattern) ==
  MatchString(<<"^">> \o ReplaceAll(pattern, <<"*">>, <<".", "*">>), key)

matchesWildcardPattern(key, pattern) ==
  LET regexPattern == <<"^">> \o ReplaceAll(pattern, <<"*">>, <<".", "*">>) \o <<"$">>
  IN MatchString(regexPattern, key)

matchesPattern(key, pattern) ==
  LET keyLower == ToLower(key)
      patternLower == ToLower(pattern)
  IN IF Contains(patternLower, "*")
     THEN matchesWildcardPattern(keyLower, patternLower)
     ELSE keyLower = patternLower

\* the remove loop with an exact key comparison
RECURSIVE applyRemoveDirectiveExact(_, _)
applyRemoveDirectiveExact(kvs, arguments) ==
  IF arguments = <<>> THEN kvs
  ELSE applyRemoveDirectiveExact(
         MapDelete(kvs, {key \in DOMAIN kvs : key = Head(arguments)}),
         Tail(arguments))

\* a remove that reads the first argument of the directive only
applyRemoveDirectiveFirstArg(kvs, arguments) ==
  IF arguments = <<>> THEN kvs
  ELSE MapDelete(kvs, {key \in DOMAIN kvs : EqualFold(key, Head(arguments))})

RECURSIVE applyRemoveDirective(_, _)
applyRemoveDirective(kvs, arguments) ==
  IF arguments = <<>> THEN kvs
  ELSE applyRemoveDirective(
         MapDelete(kvs, {key \in DOMAIN kvs : EqualFold(key, Head(arguments))}),
         Tail(arguments))

\* the loop over the directives with the name compared as written
RECURSIVE applyRemoveDirectivesExactName(_, _)
applyRemoveDirectivesExactName(kvs, directives) ==
  IF directives = <<>> THEN kvs
  ELSE applyRemoveDirectivesExactName(
         IF Head(directives).Name = KwRemove
         THEN applyRemoveDirective(kvs, Head(directives).Arguments)
         ELSE kvs,
         Tail(directives))

RECURSIVE applyRemoveDirectives(_, _)
applyRemoveDirectives(kvs, directives) ==
  IF directives = <<>> THEN kvs
  ELSE applyRemoveDirectives(
         IF ToLower(Head(directives).Name) = KwRemove
         THEN applyRemoveDirective(kvs, Head(directives).Arguments)
         ELSE kvs,
         Tail(directives))

\* the require loop with a case-insensitive lookup
RECURSIVE applyRequireDirectiveFold(_, _)
applyRequireDirectiveFold(kvs, arguments) ==
  IF arguments = <<>> THEN NoErr
  ELSE IF ~\E key \in DOMAIN kvs : EqualFold(key, Head(arguments))
       THEN Errorf("required environment variable '%s' not found", Head(arguments))
       ELSE applyRequireDirectiveFold(kvs, Tail(arguments))

RECURSIVE applyRequireDirective(_, _)
applyRequireDirective(kvs, arguments) ==
  IF arguments = <<>> THEN NoErr
  ELSE IF Head(arguments) \notin DOMAIN kvs
       THEN Errorf("required environment variable '%s' not found", Head(arguments))
       ELSE applyRequireDirective(kvs, Tail(arguments))

RECURSIVE applyRequireDirectives(_, _)
applyRequireDirectives(kvs, directives) ==
  IF directives = <<>> THEN NoErr
  ELSE LET e == IF ToLower(Head(directives).Name) = KwRequire
                THEN applyRequireDirective(kvs, Head(directives).Arguments)
                ELSE NoErr
       IN IF ~e.isNil THEN e ELSE applyRequireDirectives(kvs, Tail(directives))

\* the filter loop that uses only the first argument of a directive
applyFilterDirectiveFirstArg(kvs, arguments) ==
  IF arguments = <<>> THEN kvs
  ELSE MapDelete(kvs, {key \in DOMAIN kvs : matchesPattern(key, Head(arguments))})

RECURSIVE applyFilterDirective(_, _)
applyFilterDirective(kvs, arguments) ==
  IF arguments = <<>> THEN kvs
  ELSE applyFilterDirective(
         MapDelete(kvs, {key \in DOMAIN kvs : matchesPattern(key, Head(arguments))}),
         Tail(arguments))

RECURSIVE applyFilterDirectives(_, _)
applyFilterDirectives(kvs, directives) ==
  IF directives = <<>> THEN kvs
  ELSE applyFilterDirectives(
         IF ToLower(Head(directives).Name) = KwFilter
         THEN applyFilterDirective(kvs, Head(directives).Arguments)
         ELSE kvs,
         Tail(directives))

\* lines 346-351: the arguments of all filter-unless directives, in order
RECURSIVE allPatterns(_)
allPatterns(directives) ==
  IF directives = <<>> THEN <<>>
  ELSE (IF ToLower(Head(directives).Name) = KwFilterUnless
        THEN Head(directives).Arguments
        ELSE <<>>) \o allPatterns(Tail(directives))

\* the keep-list applied once per directive instead of once for their union
RECURSIVE applyFilterUnlessEach(_, _)
applyFilterUnlessEach(kvs, directives) ==
  IF directives = <<>> THEN kvs
  ELSE applyFilterUnlessEach(
         IF ToLower(Head(directives).Name) = KwFilterUnless
            /\ Head(directives).Arguments # <<>>
         THEN MapDelete(kvs, {key \in DOMAIN kvs :
                 \A i \in 1..Len(Head(directives).Arguments) :
                    ~matchesPattern(key, Head(directives).Arguments[i])})
         ELSE kvs,
         Tail(directives))

applyFilterUnlessDirectives(kvs, directives) ==
  LET patterns == allPatterns(directives)
  IN IF Len(patterns) = 0 THEN kvs
     ELSE LET keysToKeep == {key \in DOMAIN kvs :
                               \E i \in 1..Len(patterns) : matchesPattern(key, patterns[i])}
          IN MapDelete(kvs, DOMAIN kvs \ keysToKeep)

\* the overlay that keeps a value that is already there
RECURSIVE OverlayKeepFirst(_, _)
OverlayKeepFirst(kvs, variables) ==
  IF variables = <<>> THEN kvs
  ELSE OverlayKeepFirst(
         IF Head(variables).Key \in DOMAIN kvs THEN kvs
         ELSE MapPut(kvs, Head(variables).Key, Head(variables).Value),
         Tail(variables))

\* lines 59-61: the file's variables written over the map, in file order
RECURSIVE Overlay(_, _)
Overlay(kvs, variables) ==
  IF variables = <<>> THEN kvs
  ELSE Overlay(MapPut(kvs, Head(variables).Key, Head(variables).Value), Tail(variables))

----------------------------------------------------------------------------
(* sources/json_processor.go, the yaml reader, sources/sops_processor.go *)

\* A decoded document is a map from key to a value [kind, text, entries]:
\* text is what fmt.Sprintf("%v") prints for the value, entries the members
\* of a nested map.
SchemaKey == <<"$","s","c","h","e","m","a">>

\* a reader's result (map, error)
Read(m, e) == [kvs |-> m, err |-> e]

\* JSONProcessor.ProcessFile without the check of the key
JSONProcessFileAnyKey(src) ==
  IF src.status = "unreadable"
  THEN Read(EmptyMap, Errorf("failed to open JSON file '%s': %w", <<>>))
  ELSE IF src.status = "malformed"
  THEN Read(EmptyMap, Errorf("failed to parse JSON file '%s': %w", <<>>))
  ELSE IF SchemaKey \in DOMAIN src.data /\ src.status = "schemaInvalid"
  THEN Read(EmptyMap, Errorf("JSON schema validation failed for '%s': %w", <<>>))
  ELSE Read([key \in {k \in DOMAIN src.data : k # SchemaKey} |-> src.data[key].text],
            NoErr)

JSONProcessFile(src) ==
  IF src.status = "unreadable"
  THEN Read(EmptyMap, Errorf("failed to open JSON file '%s': %w", <<>>))
  ELSE IF src.status = "malformed"
  THEN Read(EmptyMap, Errorf("failed to parse JSON file '%s': %w", <<>>))
  ELSE IF SchemaKey \in DOMAIN src.data /\ src.status = "schemaInvalid"
  THEN Read(EmptyMap, Errorf("JSON schema validation failed for '%s': %w", <<>>))
  ELSE Read([key \in {k \in DOMAIN src.data : k # SchemaKey /\ isValidKey(k)} |->
               src.data[key].text],
            NoErr)

YAMLProcessFile(src) ==
  IF src.status = "unreadable"
  THEN Read(EmptyMap, Errorf("failed to open YAML file '%s': %w", <<>>))
  ELSE IF src.status = "malformed"
  THEN Read(EmptyMap, Errorf("failed to parse YAML file '%s': %w", <<>>))
  ELSE IF SchemaKey \in DOMAIN src.data /\ src.status = "schemaInvalid"
  THEN Read(EmptyMap, Errorf("JSON schema validation failed for '%s': %w", <<>>))
  ELSE Read([key \in {k \in DOMAIN src.data : k # SchemaKey /\ isValidKey(k)} |->
               src.data[key].text],
            NoErr)

\* SOPSProcessor.flattenMap: the variables appended, as a set (the order of
\* the appends is the iteration order of the map)
RECURSIVE flattenMap(_, _)
flattenMap(prefix, data) ==
  UNION { IF ~isValidKey(key) THEN {}
          ELSE LET fullKey == IF prefix # <<>> THEN prefix \o <<"_">> \o key ELSE key
               IN IF data[key].kind = "map"
                  THEN flattenMap(fullKey, data[key].entries)
                  ELSE {[Key |-> ToUpper(fullKey), Value |-> data[key].text]}
          : key \in DOMAIN data }

\* SOPSProcessor.ProcessFile: the set of variables, or an error
SOPSProcessFile(src) ==
  IF src.status = "unreadable"
  THEN [variables |-> {}, err |-> Errorf("failed to read SOPS file: %w", <<>>)]
  ELSE IF src.status = "undecryptable"
  THEN [variables |-> {}, err |-> Errorf("failed to decrypt SOPS file: %w", <<>>)]
  ELSE IF src.status = "malformed"
  THEN [variables |-> {}, err |-> Errorf("failed to parse decrypted YAML: %w", <<>>)]
  ELSE [variables |-> flattenMap(<<>>, src.data), err |-> NoErr]

\* the loops "for _, envVar := range envFile.Variables { variablesMap[..] = .. }"
MergeMap(m, fileVars) ==
  [k \in DOMAIN m \cup DOMAIN fileVars |->
     IF k \in DOMAIN fileVars THEN fileVars[k] ELSE m[k]]

\* the maps that writing a set of variables in some order can leave: for a
\* key that several variables carry, the value of any one of them
MergeVariables(m, variables) ==
  LET keys == {v.Key : v \in variables}
  IN {MergeMap(m, f) : f \in {g \in [keys -> {v.Value : v \in variables}] :
                                  \A k \in keys : [Key |-> k, Value |-> g[k]] \in variables}}

----------------------------------------------------------------------------
(* Inputs *)

MaxLines == 3
MaxExisting == 3

SeqsUpTo(S, n) == UNION {[1..k -> S] : k \in 0..n}

SP == <<" ">>

\* lines for the remove / overlay / require claims
LinePool ==
  { <<"A","=","1">>,
    <<"A","=","3">>,
    <<"1","A","=","x">>,
    <<"#">> \o KwRemove \o SP \o <<"A">> \o SP \o <<"a","*">>,
    <<"#">> \o KwFilter \o SP \o <<"a","*">>,
    <<"#">> \o KwFilterUnless \o SP \o <<"*","b">>,
    <<"#">> \o KwRequire \o SP \o <<"A">>,
    <<"#">> \o KwRequire \o SP \o <<"A">> \o SP \o <<"a">> }

\* lines for the filter / filter-unless claims
FilterLinePool ==
  { <<"A","=","1">>,
    <<"A","B","=","2">>,
    <<"#">> \o KwFilter \o SP \o <<"*","b">> \o SP \o <<"1","*">>,
    <<"#">> \o KwFilter \o SP \o <<"a">>,
    <<"#">> \o KwFilter,
    <<"#">> \o KwFilterUnless \o SP \o <<"*","b">>,
    <<"#">> \o KwFilterUnless \o SP \o <<"1","*">>,
    <<"#">> \o KwFilterUnless }

NoFile == [exists |-> FALSE, lines |-> <<>>]

Files(pool) ==
  {[exists |-> TRUE, lines |-> ls] : ls \in SeqsUpTo(pool, MaxLines)} \cup {NoFile}

ExistingKeyPool == { <<"A">>, <<"a">>, <<"A","B">>, <<"1","A">> }

ExistingPool ==
  {[k \in ks |-> <<"e">>] :
     ks \in {s \in SUBSET ExistingKeyPool : Cardinality(s) <= MaxExisting}}

----------------------------------------------------------------------------
(* ProcessFileWithMerge, statement by statement *)

PfmIdle ==
  /\ envFile = EmptyEnvFile
  /\ processedKVs = EmptyMap
  /\ mergedVars = EmptyMap
  /\ result = NilMap
  /\ err = NoErr

\* a direct call ProcessFileWithMerge(existingKVs, Options{FilePath: file})
DirectCall(pool) ==
  /\ existingKVs \in ExistingPool
  /\ file \in Files(pool)
  /\ pc = "start"
  /\ PfmIdle
  /\ sources = <<>>
  /\ options = [Format |-> "json"]
  /\ idx = 0
  /\ variablesMap = EmptyMap
  /\ xpc = "direct"
  /\ execErr = NoErr
  /\ output = NilMap

Init == DirectCall(LinePool)

InitFilter == DirectCall(FilterLinePool)

\* a parse whose reference table starts from the existing mapping
ParseFileSeesExisting ==
  /\ pc = "start"
  /\ IF ~file.exists
     THEN /\ result' = NilMap
          /\ err' = Wrap("failed to parse file '%s': %w", parseEnvFile(file).err)
          /\ pc' = "done"
          /\ UNCHANGED envFile
     ELSE LET p1 == FirstPass(file.lines, 1,
                      [Directives |-> <<>>, variables |-> existingKVs, err |-> NoErr])
          IN /\ envFile' = [Variables |-> SecondPass(file.lines, 1, p1.variables, <<>>),
                            Directives |-> p1.Directives]
             /\ pc' = "parsed"
             /\ UNCHANGED <<result, err>>
  /\ UNCHANGED <<existingKVs, file, processedKVs, mergedVars>>
  /\ UNCHANGED execVars

\* lines 42-45
ParseFile ==
  /\ pc = "start"
  /\ LET p == parseEnvFile(file)
     IN IF ~p.err.isNil
        THEN /\ result' = NilMap
             /\ err' = Wrap("failed to parse file '%s': %w", p.err)
             /\ pc' = "done"
             /\ UNCHANGED envFile
        ELSE /\ envFile' = p.envFile
             /\ pc' = "parsed"
             /\ UNCHANGED <<result, err>>
  /\ UNCHANGED <<existingKVs, file, processedKVs, mergedVars>>
  /\ UNCHANGED execVars

\* a remove stage without the copy of lines 79-84: the directives delete from
\* the mapping that the caller passed
RemoveStageInPlace ==
  /\ pc = "parsed"
  /\ existingKVs' = applyRemoveDirectives(existingKVs, envFile.Directives)
  /\ processedKVs' = existingKVs'
  /\ pc' = "removed"
  /\ UNCHANGED <<file, envFile, mergedVars, result, err>>
  /\ UNCHANGED execVars

\* line 48
RemoveStage ==
  /\ pc = "parsed"
  /\ processedKVs' = applyRemoveDirectives(existingKVs, envFile.Directives)
  /\ pc' = "removed"
  /\ UNCHANGED <<existingKVs, file, envFile, mergedVars, result, err>>
  /\ UNCHANGED execVars

\* the overlay that leaves out the keys the file's remove directives name
MergeStageRemoveWins ==
  /\ pc = "removed"
  /\ mergedVars' = applyRemoveDirectives(
                     Overlay(EmptyMap, envFile.Variables), envFile.Directives)
                   @@ processedKVs
  /\ pc' = "merged"
  /\ UNCHANGED <<existingKVs, file, envFile, processedKVs, result, err>>
  /\ UNCHANGED execVars

\* the overlay done before the remove directives are applied
MergeStageRemoveLate ==
  /\ pc = "removed"
  /\ mergedVars' = applyRemoveDirectives(Overlay(existingKVs, envFile.Variables),
                                         envFile.Directives)
  /\ pc' = "merged"
  /\ UNCHANGED <<existingKVs, file, envFile, processedKVs, result, err>>
  /\ UNCHANGED execVars

\* lines 51-61
MergeStage ==
  /\ pc = "removed"
  /\ mergedVars' = Overlay(processedKVs, envFile.Variables)
  /\ pc' = "merged"
  /\ UNCHANGED <<existingKVs, file, envFile, processedKVs, result, err>>
  /\ UNCHANGED execVars

\* a filter stage that spares the keys the file itself assigns
FilterStageExistingOnly ==
  /\ pc = "merged"
  /\ mergedVars' =
       LET fileKeys == {envFile.Variables[i].Key : i \in 1..Len(envFile.Variables)}
           filtered == applyFilterDirectives(mergedVars, envFile.Directives)
       IN [k \in DOMAIN filtered \cup fileKeys |-> mergedVars[k]]
  /\ pc' = "filtered"
  /\ UNCHANGED <<existingKVs, file, envFile, processedKVs, result, err>>
  /\ UNCHANGED execVars

\* line 64
FilterStage ==
  /\ pc = "merged"
  /\ mergedVars' = applyFilterDirectives(mergedVars, envFile.Directives)
  /\ pc' = "filtered"
  /\ UNCHANGED <<existingKVs, file, envFile, processedKVs, result, err>>
  /\ UNCHANGED execVars

\* line 67
FilterUnlessStage ==
  /\ pc = "filtered"
  /\ mergedVars' = applyFilterUnlessDirectives(mergedVars, envFile.Directives)
  /\ pc' = "kept"
  /\ UNCHANGED <<existingKVs, file, envFile, processedKVs, result, err>>
  /\ UNCHANGED execVars

\* the require check done on the map as it was before the overlay
RequireStageBeforeMerge ==
  /\ pc = "kept"
  /\ LET e == applyRequireDirectives(processedKVs, envFile.Directives)
     IN IF ~e.isNil
        THEN result' = NilMap /\ err' = e
        ELSE result' = SomeMap(mergedVars) /\ err' = NoErr
  /\ pc' = "done"
  /\ UNCHANGED <<existingKVs, file, envFile, processedKVs, mergedVars>>
  /\ UNCHANGED execVars

\* each require directive checked against the mapping that the directives
\* written above it give
RECURSIVE RequireInLineOrder(_, _)
RequireInLineOrder(directives, all) ==
  IF directives = <<>> THEN NoErr
  ELSE LET d == Head(directives)
           above == SelectSeq(all, LAMBDA x : x.Line < d.Line)
           m == applyFilterUnlessDirectives(
                  applyFilterDirectives(
                    Overlay(applyRemoveDirectives(existingKVs, above), envFile.Variables),
                    above),
                  above)
           e == IF ToLower(d.Name) = KwRequire
                THEN applyRequireDirective(m, d.Arguments)
                ELSE NoErr
       IN IF ~e.isNil THEN e ELSE RequireInLineOrder(Tail(directives), all)

RequireStageInLineOrder ==
  /\ pc = "kept"
  /\ LET e == RequireInLineOrder(envFile.Directives, envFile.Directives)
     IN IF ~e.isNil
        THEN result' = NilMap /\ err' = e
        ELSE result' = SomeMap(mergedVars) /\ err' = NoErr
  /\ pc' = "done"
  /\ UNCHANGED <<existingKVs, file, envFile, processedKVs, mergedVars>>
  /\ UNCHANGED execVars

\* a failing require check that hands back the mapping along with the error
RequireStageKeepsMap ==
  /\ pc = "kept"
  /\ LET e == applyRequireDirectives(mergedVars, envFile.Directives)
     IN result' = SomeMap(mergedVars) /\ err' = e
  /\ pc' = "done"
  /\ UNCHANGED <<existingKVs, file, envFile, processedKVs, mergedVars>>
  /\ UNCHANGED execVars

\* lines 70-74
RequireStage ==
  /\ pc = "kept"
  /\ LET e == applyRequireDirectives(mergedVars, envFile.Directives)
     IN IF ~e.isNil
        THEN result' = NilMap /\ err' = e
        ELSE result' = SomeMap(mergedVars) /\ err' = NoErr
  /\ pc' = "done"
  /\ UNCHANGED <<existingKVs, file, envFile, processedKVs, mergedVars>>
  /\ UNCHANGED execVars

PfmStep ==
  \/ ParseFile
  \/ RemoveStage
  \/ MergeStage
  \/ FilterStage
  \/ FilterUnlessStage
  \/ RequireStage

Next == PfmStep


Spec == Init /\ [][Next]_vars

SpecFilter == InitFilter /\ [][Next]_vars

----------------------------------------------------------------------------
(* MergeCommand.Execute, one source per step *)

MaxSources == 3

Str(t) == [kind |-> "string", text |-> t, entries |-> EmptyMap]
Obj(m) == [kind |-> "map", text |-> <<"m","a","p">>, entries |-> m]

Source(type, status, lines, data) ==
  [Type |-> type, status |-> status, lines |-> lines, data |-> data]

JsonDoc ==
  (<<"A">> :> Str(<<"j">>)) @@ (<<"1","A">> :> Str(<<"n">>))
  @@ (SchemaKey :> Str(<<"u">>))

YamlDoc ==
  (<<"a">> :> Str(<<"y">>)) @@ (<<"b","-","c">> :> Str(<<"n">>))

SopsDoc ==
  (<<"d","b">> :> Obj((<<"h">> :> Str(<<"s">>)) @@ (<<"1","x">> :> Str(<<"n">>))))
  @@ (<<"a">> :> Str(<<"s","1">>))
  @@ (<<"A">> :> Str(<<"s","2">>))
  @@ (<<"b","-","c">> :> Obj((<<"k">> :> Str(<<"n">>))))

SourcePool ==
  { Source("env", "ok", << <<"A","=","1">>, <<"1","A","=","x">> >>, EmptyMap),
    Source("env", "ok",
           << <<"#">> \o KwFilter \o SP \o <<"d","b","*">>,
              <<"#">> \o KwRequire \o SP \o <<"A">> >>, EmptyMap),
    Source("env", "unreadable", <<>>, EmptyMap),
    Source("json", "ok", <<>>, JsonDoc),
    Source("json", "schemaInvalid", <<>>, JsonDoc),
    Source("yaml", "ok", <<>>, YamlDoc),
    Source("sops", "ok", <<>>, SopsDoc),
    Source("sops", "undecryptable", <<>>, EmptyMap),
    Source("toml", "ok", <<>>, EmptyMap) }

FormatPool == {"json", "yaml", "env", "xml"}

InitExec ==
  /\ sources \in SeqsUpTo(SourcePool, MaxSources)
  /\ options \in {[Format |-> f] : f \in FormatPool}
  /\ idx = 0
  /\ variablesMap = EmptyMap
  /\ xpc = "start"
  /\ execErr = NoErr
  /\ output = NilMap
  /\ existingKVs = EmptyMap
  /\ file = NoFile
  /\ pc = "idle"
  /\ PfmIdle

\* part_006 lines 30-39
Begin ==
  /\ xpc = "start"
  /\ IF Len(sources) = 0
     THEN /\ execErr' = Errorf("no sources specified", <<>>)
          /\ xpc' = "done"
          /\ UNCHANGED idx
     ELSE /\ xpc' = "loop"
          /\ idx' = 1
          /\ UNCHANGED execErr
  /\ variablesMap' = EmptyMap
  /\ UNCHANGED <<sources, options, output>>
  /\ UNCHANGED pfmVars

AtSource(type) ==
  /\ xpc = "loop"
  /\ idx <= Len(sources)
  /\ sources[idx].Type = type

\* the outcome of one of the cases json, yaml, sops: the reader's error,
\* wrapped by parseXFile and by Execute, ends the run; otherwise the
\* variables are written into variablesMap
Fail(e, inner) ==
  /\ execErr' = Wrap("failed to parse %s file '%s': %w", Wrap(inner, e))
  /\ xpc' = "done"
  /\ UNCHANGED <<idx, variablesMap>>

\* part_006 lines 61-69 and 118-140
StepJSON ==
  /\ AtSource("json")
  /\ LET r == JSONProcessFile(sources[idx])
     IN IF ~r.err.isNil
        THEN Fail(r.err, "failed to parse JSON file '%s': %w")
        ELSE /\ variablesMap' = MergeMap(variablesMap, r.kvs)
             /\ idx' = idx + 1
             /\ UNCHANGED <<xpc, execErr>>
  /\ UNCHANGED <<sources, options, output>>
  /\ UNCHANGED pfmVars

\* part_006 lines 70-78 and 143-165
StepYAML ==
  /\ AtSource("yaml")
  /\ LET r == YAMLProcessFile(sources[idx])
     IN IF ~r.err.isNil
        THEN Fail(r.err, "failed to parse YAML file '%s': %w")
        ELSE /\ variablesMap' = MergeMap(variablesMap, r.kvs)
             /\ idx' = idx + 1
             /\ UNCHANGED <<xpc, execErr>>
  /\ UNCHANGED <<sources, options, output>>
  /\ UNCHANGED pfmVars

\* part_006 lines 86-94 and 168-181
StepSOPS ==
  /\ AtSource("sops")
  /\ LET r == SOPSProcessFile(sources[idx])
     IN IF ~r.err.isNil
        THEN Fail(r.err, "failed to parse SOPS file '%s': %w")
        ELSE /\ variablesMap' \in MergeVariables(variablesMap, r.variables)
             /\ idx' = idx + 1
             /\ UNCHANGED <<xpc, execErr>>
  /\ UNCHANGED <<sources, options, output>>
  /\ UNCHANGED pfmVars

\* part_006 lines 95-96
StepUnsupported ==
  /\ xpc = "loop"
  /\ idx <= Len(sources)
  /\ sources[idx].Type \notin {"json", "yaml", "env", "sops"}
  /\ execErr' = Errorf("unsupported source type: %s", <<>>)
  /\ xpc' = "done"
  /\ UNCHANGED <<sources, options, idx, variablesMap, output>>
  /\ UNCHANGED pfmVars

\* the call of ProcessFileWithMerge with a fresh mapping instead of the
\* accumulated one
EnvCallFresh ==
  /\ AtSource("env")
  /\ existingKVs' = EmptyMap
  /\ file' = [exists |-> sources[idx].status = "ok", lines |-> sources[idx].lines]
  /\ pc' = "start"
  /\ envFile' = EmptyEnvFile
  /\ processedKVs' = EmptyMap
  /\ mergedVars' = EmptyMap
  /\ result' = NilMap
  /\ err' = NoErr
  /\ xpc' = "inEnv"
  /\ UNCHANGED <<sources, options, idx, variablesMap, execErr, output>>

\* part_006 lines 79-82: the call of ProcessFileWithMerge
EnvCall ==
  /\ AtSource("env")
  /\ existingKVs' = variablesMap
  /\ file' = [exists |-> sources[idx].status = "ok", lines |-> sources[idx].lines]
  /\ pc' = "start"
  /\ envFile' = EmptyEnvFile
  /\ processedKVs' = EmptyMap
  /\ mergedVars' = EmptyMap
  /\ result' = NilMap
  /\ err' = NoErr
  /\ xpc' = "inEnv"
  /\ UNCHANGED <<sources, options, idx, variablesMap, execErr, output>>

\* part_006 lines 82-85: its two results are assigned, an error ends the run
EnvReturn ==
  /\ xpc = "inEnv"
  /\ pc = "done"
  /\ variablesMap' = result.kvs
  /\ IF ~err.isNil
     THEN /\ execErr' = Wrap("failed to parse %s file '%s': %w", err)
          /\ xpc' = "done"
          /\ UNCHANGED idx
     ELSE /\ xpc' = "loop"
          /\ idx' = idx + 1
          /\ UNCHANGED execErr
  /\ pc' = "idle"
  /\ UNCHANGED <<sources, options, output>>
  /\ UNCHANGED <<existingKVs, file, envFile, processedKVs, mergedVars, result, err>>

\* the directives of the env sources 1..n applied once more, in list order,
\* to the mapping m
RECURSIVE ReapplyDeletes(_, _)
ReapplyDeletes(m, n) ==
  IF n = 0 THEN m
  ELSE LET before == ReapplyDeletes(m, n - 1)
           D == parseEnvFile([exists |-> TRUE, lines |-> sources[n].lines]).envFile.Directives
       IN IF sources[n].Type = "env" /\ sources[n].status = "ok"
          THEN applyFilterUnlessDirectives(
                 applyFilterDirectives(applyRemoveDirectives(before, D), D), D)
          ELSE before

\* an output from which every key that some env source of the list deletes
\* is taken out again
OutputStickyDeletes ==
  /\ xpc = "loop"
  /\ idx > Len(sources)
  /\ IF options.Format \in {"json", "yaml", "env"}
     THEN output' = SomeMap(ReapplyDeletes(variablesMap, Len(sources))) /\ UNCHANGED execErr
     ELSE execErr' = Errorf("unsupported output format: %s", <<>>) /\ UNCHANGED output
  /\ xpc' = "done"
  /\ UNCHANGED <<sources, options, idx, variablesMap>>
  /\ UNCHANGED pfmVars

\* the first require directive of the env sources 1..n that the mapping m
\* does not meet, as an error
RECURSIVE RecheckRequires(_, _)
RecheckRequires(m, n) ==
  IF n = 0 THEN NoErr
  ELSE LET before == RecheckRequires(m, n - 1)
           D == parseEnvFile([exists |-> TRUE, lines |-> sources[n].lines]).envFile.Directives
       IN IF ~before.isNil THEN before
          ELSE IF sources[n].Type = "env" /\ sources[n].status = "ok"
               THEN applyRequireDirectives(m, D)
               ELSE NoErr

\* an output that checks the require directives of all env sources again
OutputRechecksRequires ==
  /\ xpc = "loop"
  /\ idx > Len(sources)
  /\ IF ~RecheckRequires(variablesMap, Len(sources)).isNil
     THEN execErr' = RecheckRequires(variablesMap, Len(sources)) /\ UNCHANGED output
     ELSE IF options.Format \in {"json", "yaml", "env"}
          THEN output' = SomeMap(variablesMap) /\ UNCHANGED execErr
          ELSE execErr' = Errorf("unsupported output format: %s", <<>>) /\ UNCHANGED output
  /\ xpc' = "done"
  /\ UNCHANGED <<sources, options, idx, variablesMap>>
  /\ UNCHANGED pfmVars

\* part_006 lines 104-114
Output ==
  /\ xpc = "loop"
  /\ idx > Len(sources)
  /\ IF options.Format \in {"json", "yaml", "env"}
     THEN output' = SomeMap(variablesMap) /\ UNCHANGED execErr
     ELSE execErr' = Errorf("unsupported output format: %s", <<>>) /\ UNCHANGED output
  /\ xpc' = "done"
  /\ UNCHANGED <<sources, options, idx, variablesMap>>
  /\ UNCHANGED pfmVars

ExecStep ==
  \/ Begin
  \/ StepJSON
  \/ StepYAML
  \/ StepSOPS
  \/ StepUnsupported
  \/ EnvCall
  \/ EnvReturn
  \/ Output

NextExec == ExecStep \/ PfmStep

SpecExec == InitExec /\ [][NextExec]_vars


----------------------------------------------------------------------------
(* The claims, stated on sets of keys rather than by the loops of the code *)

\* the arguments of the directives named kw (name compared ignoring case)
ArgsOf(directives, kw) ==
  UNION {{directives[i].Arguments[j] : j \in 1..Len(directives[i].Arguments)} :
           i \in {n \in 1..Len(directives) : ToLower(directives[n].Name) = kw}}

\* the same arguments as a sequence: directive order, then argument order
RECURSIVE ArgSeq(_, _)
ArgSeq(directives, kw) ==
  IF directives = <<>> THEN <<>>
  ELSE (IF ToLower(Head(directives).Name) = kw THEN Head(directives).Arguments ELSE <<>>)
       \o ArgSeq(Tail(directives), kw)

SameLetter(c, d) ==
  c = d \/ \E n \in 1..26 : {c, d} = {UpperSeq[n], LowerSeq[n]}

SameIgnoringCase(k, a) ==
  Len(k) = Len(a) /\ \A i \in 1..Len(k) : SameLetter(k[i], a[i])

FileKeys == {envFile.Variables[i].Key : i \in 1..Len(envFile.Variables)}

\* the value of the last assignment of k in the file
LastValue(k) ==
  LET V == envFile.Variables
      last == CHOOSE i \in 1..Len(V) :
                V[i].Key = k /\ \A j \in (i+1)..Len(V) : V[j].Key # k
  IN V[last].Value

Removed(k) == \E a \in ArgsOf(envFile.Directives, KwRemove) : SameIgnoringCase(k, a)

Filtered(k) == \E p \in ArgsOf(envFile.Directives, KwFilter) : matchesPattern(k, p)

KeepListed(k) ==
  \/ ArgsOf(envFile.Directives, KwFilterUnless) = {}
  \/ \E p \in ArgsOf(envFile.Directives, KwFilterUnless) : matchesPattern(k, p)

ParseFailed == ~err.isNil /\ err.fmt = "failed to parse file '%s': %w"

Finished == pc = "done" /\ ~ParseFailed

\* keepList(filter(overlay(remove(E, D), V), D), D)
ExpectedKeys ==
  {k \in {e \in DOMAIN existingKVs : ~Removed(e)} \cup FileKeys :
     ~Filtered(k) /\ KeepListed(k)}

ExpectedResult ==
  [k \in ExpectedKeys |-> IF k \in FileKeys THEN LastValue(k) ELSE existingKVs[k]]

RequireErr(a) ==
  [isNil |-> FALSE, fmt |-> "required environment variable '%s' not found",
   arg |-> a, cause |-> <<>>]

C2_NoDirectives ==
  (Finished /\ envFile.Directives = <<>>) =>
    /\ err.isNil
    /\ ~result.isNil
    /\ DOMAIN result.kvs = DOMAIN existingKVs \cup FileKeys
    /\ \A k \in FileKeys : result.kvs[k] = LastValue(k)
    /\ \A k \in DOMAIN existingKVs \ FileKeys : result.kvs[k] = existingKVs[k]
    /\ (file.lines = <<>> => result.kvs = existingKVs)

\* the file assigns an existing key twice with different values, and another
\* existing key is carried over
C2_Witness ==
  /\ Finished
  /\ envFile.Directives = <<>>
  /\ \E i, j \in 1..Len(envFile.Variables) :
       /\ i < j
       /\ envFile.Variables[i].Key = envFile.Variables[j].Key
       /\ envFile.Variables[i].Value # envFile.Variables[j].Value
       /\ envFile.Variables[i].Key \in DOMAIN existingKVs
       /\ result.kvs[envFile.Variables[i].Key] = envFile.Variables[j].Value
  /\ DOMAIN existingKVs \ FileKeys # {}

\* C3: the merge fails iff some require argument is not, with identical
\* casing, a key of the final mapping; the error is then exactly
\* "required environment variable '<arg>' not found" for the first missing
\* argument in directive order, then argument order.
C3_RequireExact ==
  Finished =>
    LET req == ArgSeq(envFile.Directives, KwRequire)
        missing == {i \in 1..Len(req) : req[i] \notin DOMAIN mergedVars}
    IN IF missing = {}
       THEN err.isNil
       ELSE err = RequireErr(req[CHOOSE i \in missing : \A j \in missing : i <= j])

\* the missing argument differs only in case from a key that is present, an
\* earlier argument was satisfied, and the error names the missing one
C3_Witness ==
  /\ Finished
  /\ ~err.isNil
  /\ LET req == ArgSeq(envFile.Directives, KwRequire)
     IN \E i \in 1..Len(req) :
          /\ i > 1
          /\ req[1] \in DOMAIN mergedVars
          /\ err.arg = req[i]
          /\ \E k \in DOMAIN mergedVars : k # req[i] /\ SameIgnoringCase(k, req[i])

C5_RemoveIgnoresCase ==
  pc = "removed" =>
    /\ processedKVs = [k \in {e \in DOMAIN existingKVs : ~Removed(e)} |-> existingKVs[k]]
    /\ err.isNil

\* two case variants of one key are both deleted by one argument, an argument
\* with "*" names no key, and the key it would match as a wildcard stays
C5_Witness ==
  /\ pc = "removed"
  /\ \E a \in ArgsOf(envFile.Directives, KwRemove) :
       \E k1, k2 \in DOMAIN existingKVs :
         /\ k1 # k2
         /\ SameIgnoringCase(k1, a)
         /\ SameIgnoringCase(k2, a)
         /\ k1 \notin DOMAIN processedKVs
         /\ k2 \notin DOMAIN processedKVs
  /\ \E a \in ArgsOf(envFile.Directives, KwRemove) :
       /\ Contains(a, "*")
       /\ \A k \in DOMAIN existingKVs : ~SameIgnoringCase(k, a)
       /\ \E k \in DOMAIN processedKVs : matchesPattern(k, a)

KeyRegex(k) ==
  /\ k # <<>>
  /\ \A i \in 1..Len(k) :
       \/ \E n \in 1..26 : k[i] \in {UpperSeq[n], LowerSeq[n]}
       \/ k[i] = "_"
       \/ (i > 1 /\ k[i] \in DigitChars)

\* C9 as stated: no key of a returned mapping fails the regex, whatever the
\* existing mapping.
C9_NoInvalidKeyReturned ==
  (pc = "done" /\ ~result.isNil) => \A k \in DOMAIN result.kvs : KeyRegex(k)

\* C9 amended: a key of a returned mapping that fails the regex was already a
\* key of the existing mapping and has its existing value; the file never
\* contributes such a key.
C9_NoInvalidKeyFromFile ==
  (pc = "done" /\ ~result.isNil) =>
    \A k \in DOMAIN result.kvs :
      KeyRegex(k) \/ (k \in DOMAIN existingKVs /\ result.kvs[k] = existingKVs[k])

\* the file assigns a key that fails the regex, the existing mapping does not
\* have it, and the returned mapping does not have it either
C9_Witness ==
  /\ pc = "done"
  /\ ~result.isNil
  /\ \E i \in 1..Len(file.lines) :
       LET line == TrimSpace(file.lines[i])
       IN /\ Contains(line, "=")
          /\ ~HasPrefix(line, <<"#">>)
          /\ ~KeyRegex(TrimSpace(SplitN(line)[1]))
          /\ TrimSpace(SplitN(line)[1]) # <<>>
          /\ TrimSpace(SplitN(line)[1]) \notin DOMAIN existingKVs
          /\ TrimSpace(SplitN(line)[1]) \notin DOMAIN result.kvs
  /\ FileKeys # {}

\* C10: in MergeCommand.Execute every key of the accumulated mapping matches
\* ^[A-Za-z_][A-Za-z0-9_]*$, after each source and in what is emitted.
C10_ExecKeysValid ==
  /\ \A k \in DOMAIN variablesMap : KeyRegex(k)
  /\ \A k \in DOMAIN output.kvs : KeyRegex(k)

\* sources of all four kinds were merged, documents with keys that fail the
\* regex among them, and the result was emitted
C10_Witness ==
  /\ xpc = "done"
  /\ ~output.isNil
  /\ {sources[i].Type : i \in 1..Len(sources)} \cap {"json", "yaml", "sops"} # {}
  /\ \E i \in 1..Len(sources) : sources[i].Type = "env" /\ sources[i].lines # <<>>
  /\ \E i \in 1..Len(sources) :
       /\ sources[i].Type \in {"json", "yaml", "sops"}
       /\ \E k \in DOMAIN sources[i].data : ~KeyRegex(k)
  /\ DOMAIN output.kvs # {}

----------------------------------------------------------------------------
(* MergeCommand.Execute as a fold over the list of sources *)

\* what one call of ProcessFileWithMerge returns, as one expression
PfmOutcome(existing, f) ==
  LET p == parseEnvFile(f)
  IN IF ~p.err.isNil
     THEN [failed |-> TRUE, kvs |-> EmptyMap]
     ELSE LET D == p.envFile.Directives
              m == applyFilterUnlessDirectives(
                     applyFilterDirectives(
                       Overlay(applyRemoveDirectives(existing, D), p.envFile.Variables),
                       D),
                     D)
          IN [failed |-> ~applyRequireDirectives(m, D).isNil, kvs |-> m]

\* the mappings that merging source src into m can give; none when the
\* source fails
StepResults(m, src) ==
  IF src.Type = "json"
  THEN (IF JSONProcessFile(src).err.isNil
        THEN {MergeMap(m, JSONProcessFile(src).kvs)} ELSE {})
  ELSE IF src.Type = "yaml"
  THEN (IF YAMLProcessFile(src).err.isNil
        THEN {MergeMap(m, YAMLProcessFile(src).kvs)} ELSE {})
  ELSE IF src.Type = "sops"
  THEN (IF SOPSProcessFile(src).err.isNil
        THEN MergeVariables(m, SOPSProcessFile(src).variables) ELSE {})
  ELSE IF src.Type = "env"
  THEN LET o == PfmOutcome(m, [exists |-> src.status = "ok", lines |-> src.lines])
       IN IF o.failed THEN {} ELSE {o.kvs}
  ELSE {}

\* the mappings accumulated from sources[1..n], taken in list order; none
\* when one of them fails
RECURSIVE AccumulatedAfter(_)
AccumulatedAfter(n) ==
  IF n = 0 THEN {EmptyMap}
  ELSE UNION {StepResults(m, sources[n]) : m \in AccumulatedAfter(n - 1)}

ExecFailedAtSource ==
  /\ xpc = "done"
  /\ ~execErr.isNil
  /\ execErr.fmt \in {"failed to parse %s file '%s': %w", "unsupported source type: %s"}

----------------------------------------------------------------------------
(* Sources that carry a Priority (commands/types.go) *)

WithPriority(src, priority) ==
  [Type |-> src.Type, status |-> src.status, lines |-> src.lines, data |-> src.data,
   Priority |-> priority]

PriorityDoc == (<<"A">> :> Str(<<"j">>))

PrioritySopsDoc == (<<"a">> :> Str(<<"s">>))

PriorityPool == 0..1

PrioritySourcePool ==
  {WithPriority(src, priority) :
     src \in { Source("env", "ok", << <<"A","=","1">> >>, EmptyMap),
               Source("env", "ok", << <<"A","=","3">> >>, EmptyMap),
               Source("json", "ok", <<>>, PriorityDoc),
               Source("yaml", "ok", <<>>, YamlDoc),
               Source("sops", "ok", <<>>, PrioritySopsDoc),
               Source("toml", "ok", <<>>, EmptyMap) },
     priority \in PriorityPool}
  \cup {WithPriority(Source("env", "ok", << <<"#">> \o KwFilter \o SP \o <<"a","*">> >>,
                           EmptyMap), 0)}

InitPriority ==
  /\ sources \in SeqsUpTo(PrioritySourcePool, MaxSources)
  /\ options = [Format |-> "env"]
  /\ idx = 0
  /\ variablesMap = EmptyMap
  /\ xpc = "start"
  /\ execErr = NoErr
  /\ output = NilMap
  /\ existingKVs = EmptyMap
  /\ file = NoFile
  /\ pc = "idle"
  /\ PfmIdle

SpecPriority == InitPriority /\ [][NextExec]_vars

\* the variables that a source assigns when it is read on its own
SourceAssigns(src) ==
  LET ms == StepResults(EmptyMap, [src EXCEPT !.lines =
                SelectSeq(src.lines, LAMBDA l : ~IsDirectiveLine(TrimSpace(l)))])
  IN UNION {{[Key |-> k, Value |-> m[k]] : k \in DOMAIN m} : m \in ms}

\* a directive of src deletes key k from the merged mapping
SourceDeletes(src, k) ==
  /\ src.Type = "env"
  /\ src.status = "ok"
  /\ LET D == parseEnvFile([exists |-> TRUE, lines |-> src.lines]).envFile.Directives
     IN \/ \E a \in ArgsOf(D, KwRemove) : SameIgnoringCase(k, a)
        \/ \E q \in ArgsOf(D, KwFilter) : matchesPattern(k, q)
        \/ /\ ArgsOf(D, KwFilterUnless) # {}
           /\ \A q \in ArgsOf(D, KwFilterUnless) : ~matchesPattern(k, q)

\* C12 as stated: when exactly two sources of the list assign key K, no
\* directive of any source deletes K, and the run emits its output, K has
\* the value of the source with the larger Priority, wherever the two stand
\* in the list.
C12_HigherPriorityWins ==
  (xpc = "done" /\ ~output.isNil) =>
    \A i, j \in 1..Len(sources) :
      \A vi \in SourceAssigns(sources[i]) :
        \A vj \in SourceAssigns(sources[j]) :
          ( /\ i # j
            /\ vi.Key = vj.Key
            /\ sources[i].Priority > sources[j].Priority
            /\ \A l \in 1..Len(sources) :
                 /\ ~SourceDeletes(sources[l], vi.Key)
                 /\ (l \notin {i, j} =>
                      \A vl \in SourceAssigns(sources[l]) : vl.Key # vi.Key) )
          => (vi.Key \in DOMAIN output.kvs /\ output.kvs[vi.Key] = vi.Value)

\* C13: a finished call has an error when the file cannot be opened or a
\* require argument is missing from the mapping the stages computed; whenever
\* it has an error it returns the nil mapping, never the computed one, and
\* without an error it returns the computed mapping.
C13_ErrorMeansNoMapping ==
  pc = "done" =>
    /\ (~file.exists => ~err.isNil)
    /\ (\E a \in ArgsOf(envFile.Directives, KwRequire) : a \notin DOMAIN mergedVars)
         => ~err.isNil
    /\ (~err.isNil => result = NilMap)
    /\ (err.isNil => result = SomeMap(mergedVars))

\* a require check failed after the stages had computed a non-empty mapping
\* that differs from the existing one, and the nil mapping was returned
C13_Witness ==
  /\ pc = "done"
  /\ err.fmt = "required environment variable '%s' not found"
  /\ mergedVars # EmptyMap
  /\ mergedVars # existingKVs
  /\ result = NilMap

----------------------------------------------------------------------------
(* Files whose values hold ${NAME} references *)

Ref(name) == <<"$","{">> \o name \o <<"}">>

RefLinePool ==
  { <<"A","=","1">>,
    <<"A","=","'","2","'">>,
    <<"B","=">> \o Ref(<<"A">>),
    <<"C","=">> \o Ref(<<"B">>),
    <<"A","=">> \o Ref(<<"B">>),
    <<"A","=">> \o Ref(<<"A">>),
    <<"B","=","x">> \o Ref(<<"N">>) \o Ref(<<"A">>),
    <<"C","=">> \o Ref(<<"N">>) \o <<"y">> }

RefExistingPool ==
  { EmptyMap,
    (<<"A">> :> <<"e">>) @@ (<<"N">> :> <<"e">>) }

InitRef ==
  /\ existingKVs \in RefExistingPool
  /\ file \in Files(RefLinePool)
  /\ pc = "start"
  /\ PfmIdle
  /\ sources = <<>>
  /\ options = [Format |-> "json"]
  /\ idx = 0
  /\ variablesMap = EmptyMap
  /\ xpc = "direct"
  /\ execErr = NoErr
  /\ output = NilMap

SpecRef == InitRef /\ [][Next]_vars

\* the lines of the file that assign a valid key
AssignIdx == {i \in 1..Len(file.lines) : IsAssignmentLine(TrimSpace(file.lines[i]))}

KeyAt(i) == AssignedKey(TrimSpace(file.lines[i]))

\* the value written on line i, with its quotes removed and references untouched
RawAt(i) == unquoteValue(AssignedRaw(TrimSpace(file.lines[i])))

FileAssigned == {KeyAt(i) : i \in AssignIdx}

FirstLineOf(name) ==
  CHOOSE i \in AssignIdx : KeyAt(i) = name /\ \A j \in AssignIdx : KeyAt(j) = name => i <= j

LastLineOf(name) ==
  CHOOSE i \in AssignIdx : KeyAt(i) = name /\ \A j \in AssignIdx : KeyAt(j) = name => j <= i

\* the variable emitted for the assignment on line i: assignments are
\* appended in line order
VariableOf(i) ==
  envFile.Variables[
    Cardinality({j \in 1..i : IsAssignmentLine(TrimSpace(file.lines[j]))})]

\* the spans <<i, j>> of v that read ${...}: "$", "{", one or more characters
\* other than "}", and the first "}" after them
RefSpans(v) ==
  {sp \in (1..Len(v)) \X (1..Len(v)) :
     /\ sp[2] > sp[1] + 2
     /\ v[sp[1]] = "$"
     /\ v[sp[1] + 1] = "{"
     /\ v[sp[2]] = "}"
     /\ \A m \in (sp[1] + 2)..(sp[2] - 1) : v[m] # "}"}

SpanName(v, sp) == SubSeq(v, sp[1] + 2, sp[2] - 1)

RefNames(v) == {SpanName(v, sp) : sp \in RefSpans(v)}

\* what stands in place of ${name}: the unquoted raw value of the last
\* assignment of name in the file, or the reference itself
Substitute(name) ==
  IF name \in FileAssigned THEN RawAt(LastLineOf(name)) ELSE Ref(name)

\* v with each of its (at most two, disjoint) spans replaced once
Substituted(v) ==
  LET S == RefSpans(v)
  IN IF S = {} THEN v
     ELSE LET s1 == CHOOSE sp \in S : \A o \in S : sp[1] <= o[1]
          IN IF S = {s1}
             THEN SubSeq(v, 1, s1[1] - 1) \o Substitute(SpanName(v, s1))
                  \o SubSeq(v, s1[2] + 1, Len(v))
             ELSE LET s2 == CHOOSE sp \in S : sp # s1
                  IN SubSeq(v, 1, s1[1] - 1) \o Substitute(SpanName(v, s1))
                     \o SubSeq(v, s1[2] + 1, s2[1] - 1) \o Substitute(SpanName(v, s2))
                     \o SubSeq(v, s2[2] + 1, Len(v))

DisjointSpans(v) ==
  /\ Cardinality(RefSpans(v)) <= 2
  /\ \A a, b \in RefSpans(v) : a # b => (a[2] < b[1] \/ b[2] < a[1])

\* t occurs in s as a contiguous piece
HasSub(s, t) == \E i \in 1..(Len(s) - Len(t) + 1) : SubSeq(s, i, i + Len(t) - 1) = t

\* C14: a value whose references all name keys that no line of the same file
\* assigns is emitted as written, references included, whether or not the
\* existing mapping has those keys; the returned mapping carries it unchanged.
C14_RefSameFileOnly ==
  /\ pc = "parsed" =>
       /\ Len(envFile.Variables) = Cardinality(AssignIdx)
       /\ \A i \in AssignIdx :
            /\ VariableOf(i).Key = KeyAt(i)
            /\ (RefNames(RawAt(i)) \cap FileAssigned = {}) =>
                 VariableOf(i).Value = RawAt(i)
  /\ (pc = "done" /\ err.isNil) =>
       \A i \in AssignIdx :
         (i = LastLineOf(KeyAt(i)) /\ RefNames(RawAt(i)) \cap FileAssigned = {}) =>
           result.kvs[KeyAt(i)] = RawAt(i)

\* the file refers to a key that only the existing mapping has, and the
\* returned value still holds the reference as text
C14_Witness ==
  /\ pc = "done"
  /\ err.isNil
  /\ \E i \in AssignIdx :
       /\ RefNames(RawAt(i)) # {}
       /\ RefNames(RawAt(i)) \subseteq DOMAIN existingKVs
       /\ RefNames(RawAt(i)) \cap FileAssigned = {}
       /\ result.kvs[KeyAt(i)] = RawAt(i)
       /\ \A name \in RefNames(RawAt(i)) : HasSub(result.kvs[KeyAt(i)], Ref(name))

\* C19 as stated: when the file has been parsed, a reference that stands on a line above the first
\* assignment of its name is still in the emitted value, as the text ${NAME}.
C19_ForwardRefStaysLiteral ==
  pc = "parsed" =>
    \A i \in AssignIdx :
      \A name \in RefNames(RawAt(i)) :
        (name \in FileAssigned /\ FirstLineOf(name) > i) =>
          HasSub(VariableOf(i).Value, Ref(name))

\* C19 amended: when the file has been parsed, a reference that stands on a line above the first assignment
\* of its name is replaced, like any other, by the unquoted raw value of the
\* last assignment of that name in the file.
C19_ForwardRefResolved ==
  pc = "parsed" =>
    \A i \in AssignIdx :
      LET v == RawAt(i)
      IN \A sp \in RefSpans(v) :
           ( /\ RefSpans(v) = {sp}
             /\ SpanName(v, sp) \in FileAssigned
             /\ FirstLineOf(SpanName(v, sp)) > i )
           => VariableOf(i).Value =
                SubSeq(v, 1, sp[1] - 1)
                \o RawAt(LastLineOf(SpanName(v, sp)))
                \o SubSeq(v, sp[2] + 1, Len(v))

\* a line refers to a name whose only assignment stands below it, and the
\* returned value is the value assigned there, without the reference
C19_Witness ==
  /\ pc = "done"
  /\ err.isNil
  /\ \E i \in AssignIdx :
       \E name \in RefNames(RawAt(i)) :
         /\ name \in FileAssigned
         /\ FirstLineOf(name) > i
         /\ FirstLineOf(name) = LastLineOf(name)
         /\ i = LastLineOf(KeyAt(i))
         /\ result.kvs[KeyAt(i)] = RawAt(LastLineOf(name))
         /\ ~HasSub(result.kvs[KeyAt(i)], Ref(name))

\* C20: when the file has been parsed, the emitted value is the written value with each ${NAME} span
\* replaced once, left to right, by the unquoted raw value of the last
\* assignment of NAME in the file (or left as it is when the file assigns no
\* such name); what was put in place of a span is not looked at again, so a
\* chain A=1, B=${A}, C=${B} gives C the text ${A}, and self-referencing and
\* cyclic assignments get a value as well.
C20_SinglePass ==
  pc = "parsed" =>
    \A i \in AssignIdx :
      LET v == RawAt(i)
      IN DisjointSpans(v) => VariableOf(i).Value = Substituted(v)

\* a value that is one reference to a name whose own value is a reference to
\* an assigned name is returned as that second reference, unresolved
C20_Witness ==
  /\ pc = "done"
  /\ err.isNil
  /\ \E i, j, k \in AssignIdx :
       /\ RawAt(i) = Ref(KeyAt(j))
       /\ RawAt(j) = Ref(KeyAt(k))
       /\ RefSpans(RawAt(k)) = {}
       /\ i = LastLineOf(KeyAt(i))
       /\ j = LastLineOf(KeyAt(j))
       /\ k = LastLineOf(KeyAt(k))
       /\ result.kvs[KeyAt(i)] = Ref(KeyAt(k))

----------------------------------------------------------------------------
(* Files with directive names in mixed case and with other names *)

DirectiveLinePool ==
  { <<"A","=","1">>,
    <<"B","=","2">>,
    <<"#","R","E","M","O","V","E">> \o SP \o <<"A">>,
    <<"#","R","e","q","u","i","r","e">> \o SP \o <<"C">>,
    <<"#","F","I","L","T","E","R">> \o SP \o <<"b">>,
    <<"#","F","i","l","t","e","r","-","U","n","l","e","s","s">> \o SP \o <<"a","*">>,
    <<"#","T","O","D","O">> \o SP \o <<"A">>,
    <<"#","C","=","1">> }

DirectiveExistingPool ==
  { EmptyMap,
    (<<"A">> :> <<"e">>),
    (<<"A">> :> <<"e">>) @@ (<<"B">> :> <<"e">>) @@ (<<"C">> :> <<"e">>) }

InitDirective ==
  /\ existingKVs \in DirectiveExistingPool
  /\ file \in Files(DirectiveLinePool)
  /\ pc = "start"
  /\ PfmIdle
  /\ sources = <<>>
  /\ options = [Format |-> "json"]
  /\ idx = 0
  /\ variablesMap = EmptyMap
  /\ xpc = "direct"
  /\ execErr = NoErr
  /\ output = NilMap

SpecDirective == InitDirective /\ [][Next]_vars

Keywords == {KwRemove, KwRequire, KwFilter, KwFilterUnless}

\* the name written on a directive line
NameOnLine(line) == Fields(TrimSpace(TrimPrefix(TrimSpace(line), <<"#">>)))[1]

\* a directive line whose name is none of the four, whatever the case
InertLine(line) ==
  /\ IsDirectiveLine(TrimSpace(line))
  /\ \A kw \in Keywords : ~SameIgnoringCase(NameOnLine(line), kw)

\* the line with its directive name written in lower case
RECURSIVE JoinFields(_)
JoinFields(parts) ==
  IF parts = <<>> THEN <<>> ELSE SP \o Head(parts) \o JoinFields(Tail(parts))

LowerName(line) ==
  IF IsDirectiveLine(TrimSpace(line)) /\ ~InertLine(line)
  THEN LET parts == Fields(TrimSpace(TrimPrefix(TrimSpace(line), <<"#">>)))
       IN <<"#">> \o (CHOOSE kw \in Keywords : SameIgnoringCase(parts[1], kw))
          \o JoinFields(Tail(parts))
  ELSE line

\* the file without its inert directive lines and with the other directive
\* names in lower case
RECURSIVE Canonical(_)
Canonical(lines) ==
  IF lines = <<>> THEN <<>>
  ELSE (IF InertLine(Head(lines)) THEN <<>> ELSE <<LowerName(Head(lines))>>)
       \o Canonical(Tail(lines))

\* C15: a call on a readable file never fails in parsing, and it ends as the
\* call on the same file with every directive name written in lower case and
\* every directive line of another name deleted: the same success or failure
\* and the same mapping.  So a name takes effect iff it is one of remove,
\* require, filter, filter-unless up to case, and a line of another name adds
\* no error, no change and no variable.
C15_DirectiveNames ==
  (pc = "done" /\ file.exists) =>
    LET o == PfmOutcome(existingKVs, [exists |-> TRUE, lines |-> Canonical(file.lines)])
    IN /\ ~ParseFailed
       /\ err.isNil = ~o.failed
       /\ (err.isNil => result = SomeMap(o.kvs))
       /\ \A i \in 1..Len(file.lines) :
            InertLine(file.lines[i]) => ~IsAssignmentLine(TrimSpace(file.lines[i]))

\* a directive written in upper case removed a key of the existing mapping,
\* and a line "#C=1" in the same file left no key C in the returned mapping
C15_Witness ==
  /\ pc = "done"
  /\ err.isNil
  /\ \E i \in 1..Len(file.lines) :
       /\ ~InertLine(file.lines[i])
       /\ IsDirectiveLine(file.lines[i])
       /\ NameOnLine(file.lines[i]) \notin Keywords
       /\ \E k \in DOMAIN existingKVs : k \notin DOMAIN result.kvs
  /\ \E i \in 1..Len(file.lines) :
       /\ InertLine(file.lines[i])
       /\ Contains(file.lines[i], "=")
       /\ <<"C">> \notin DOMAIN result.kvs
  /\ DOMAIN result.kvs # {}

----------------------------------------------------------------------------
(* matchesPattern on every key and pattern up to a length, applied by the
   filter stage to a mapping with one key and a file with one directive *)

MaxKeyLen == 4
MaxPatternLen == 4

NonEmptySeqsUpTo(S, n) == UNION {[1..k -> S] : k \in 1..n}

MatchKeyPool == NonEmptySeqsUpTo({"a", "B"}, MaxKeyLen)

MatchPatternPool == NonEmptySeqsUpTo({"a", "b", "*"}, MaxPatternLen)

InitMatch ==
  /\ existingKVs \in {(k :> <<"e">>) : k \in MatchKeyPool}
  /\ file \in {[exists |-> TRUE, lines |-> << <<"#">> \o KwFilter \o SP \o q >>] :
                 q \in MatchPatternPool}
  /\ pc = "start"
  /\ PfmIdle
  /\ sources = <<>>
  /\ options = [Format |-> "json"]
  /\ idx = 0
  /\ variablesMap = EmptyMap
  /\ xpc = "direct"
  /\ execErr = NoErr
  /\ output = NilMap

SpecMatch == InitMatch /\ [][Next]_vars

\* the key can be cut into pieces so that each "*" of the pattern stands for
\* one piece, possibly empty, and every other character of the pattern for
\* the same letter of the key, in either case
RECURSIVE WildcardSplit(_, _)
WildcardSplit(pattern, key) ==
  IF pattern = <<>> THEN key = <<>>
  ELSE IF Head(pattern) = "*"
       THEN \E n \in 0..Len(key) :
              WildcardSplit(Tail(pattern), SubSeq(key, n + 1, Len(key)))
       ELSE /\ key # <<>>
            /\ SameLetter(Head(pattern), Head(key))
            /\ WildcardSplit(Tail(pattern), Tail(key))

TheKey == CHOOSE k \in DOMAIN existingKVs : TRUE

ThePattern == envFile.Directives[1].Arguments[1]

\* C16: the filter stage, which deletes the key iff matchesPattern(key,
\* pattern), deletes it iff, for a pattern without "*", key and pattern are
\* equal ignoring case, and for a pattern with "*", the whole key can be split
\* along the pattern with each "*" standing for any, possibly empty, piece.
C16_MatchesPattern ==
  pc = "filtered" =>
    /\ (TheKey \notin DOMAIN mergedVars) = matchesPattern(TheKey, ThePattern)
    /\ matchesPattern(TheKey, ThePattern) =
         IF Contains(ThePattern, "*")
         THEN WildcardSplit(ThePattern, TheKey)
         ELSE SameIgnoringCase(TheKey, ThePattern)

\* a key was deleted by a pattern whose "*" stands for nothing and whose
\* letters differ from the key's in case
C16_Witness ==
  /\ pc = "filtered"
  /\ mergedVars = EmptyMap
  /\ Contains(ThePattern, "*")
  /\ Len(ThePattern) = Len(TheKey) + 1
  /\ \E i \in 1..Len(TheKey) : TheKey[i] \in UpperChars
  /\ \A i \in 1..Len(ThePattern) : ThePattern[i] \notin UpperChars
  /\ ThePattern[1] # "*"
  /\ ThePattern[Len(ThePattern)] # "*"

----------------------------------------------------------------------------
(* Directives and the variables of their own file; directives and line order *)

DeletesKey(j, k) ==
  LET d == envFile.Directives[j]
  IN \/ /\ ToLower(d.Name) = KwRemove
        /\ k \notin FileKeys
        /\ \E a \in 1..Len(d.Arguments) : SameIgnoringCase(k, d.Arguments[a])
     \/ /\ ToLower(d.Name) = KwFilter
        /\ \E a \in 1..Len(d.Arguments) : matchesPattern(k, d.Arguments[a])

RequiresKey(i, k) ==
  /\ ToLower(envFile.Directives[i].Name) = KwRequire
  /\ \E a \in 1..Len(envFile.Directives[i].Arguments) :
       envFile.Directives[i].Arguments[a] = k

----------------------------------------------------------------------------
(* Files with invalid keys, bare "#" lines and "#" lines of other shapes *)

ParseLinePool ==
  { <<"A","=","1">>,
    <<"1","A","=","x">>,
    <<"G","=">> \o Ref(<<"1","A">>),
    <<"#">>,
    <<"#"," ","\t">>,
    <<"#","\t">> \o KwRemove \o SP \o <<"A">>,
    <<"#","#">> \o KwRemove \o SP \o <<"A">>,
    <<"#"," ">> \o KwRemove \o SP \o <<"A">> }

ParseExistingPool ==
  { EmptyMap,
    (<<"A">> :> <<"e">>),
    (<<"A">> :> <<"e">>) @@ (<<"1","A">> :> <<"e">>) }

InitParse ==
  /\ existingKVs \in ParseExistingPool
  /\ file \in Files(ParseLinePool)
  /\ pc = "start"
  /\ PfmIdle
  /\ sources = <<>>
  /\ options = [Format |-> "json"]
  /\ idx = 0
  /\ variablesMap = EmptyMap
  /\ xpc = "direct"
  /\ execErr = NoErr
  /\ output = NilMap

SpecParse == InitParse /\ [][Next]_vars

\* the lines of the file that read key=value with a key the regex rejects
InvalidAssignIdx ==
  {i \in 1..Len(file.lines) :
     /\ IsAssignmentLineAnyKey(TrimSpace(file.lines[i]))
     /\ ~isValidKey(AssignedKey(TrimSpace(file.lines[i])))}

\* C21 as stated: when the file has been parsed, a value that is one
\* reference to a name assigned in the file on a line with an invalid key has
\* been emitted as the value of that line.
C21_InvalidKeyFeedsTable ==
  pc = "parsed" =>
    \A i \in AssignIdx :
      \A j \in InvalidAssignIdx :
        RawAt(i) = Ref(KeyAt(j)) => VariableOf(i).Value = RawAt(j)

\* C21 amended: when the file has been parsed, no emitted variable has an
\* invalid key, and a value whose references all name invalid keys is emitted
\* as written, the references still in it, also when the file has key=value
\* lines for those names: such lines are left out of the reference table as
\* they are left out of the variables.
C21_InvalidKeyNotInTable ==
  pc = "parsed" =>
    /\ Len(envFile.Variables) = Cardinality(AssignIdx)
    /\ \A n \in 1..Len(envFile.Variables) : isValidKey(envFile.Variables[n].Key)
    /\ \A i \in AssignIdx :
         (\A name \in RefNames(RawAt(i)) : ~isValidKey(name)) =>
           VariableOf(i).Value = RawAt(i)

\* the file assigns x to the invalid key 1A and refers to it, and the call
\* returns the reference as text and no key 1A from the file
C21_Witness ==
  /\ pc = "done"
  /\ err.isNil
  /\ \E i \in AssignIdx :
       \E j \in InvalidAssignIdx :
         /\ RawAt(i) = Ref(KeyAt(j))
         /\ RawAt(j) # Ref(KeyAt(j))
         /\ result.kvs[KeyAt(i)] = Ref(KeyAt(j))
         /\ KeyAt(j) \notin DOMAIN existingKVs
         /\ KeyAt(j) \notin DOMAIN result.kvs

\* what the finished call has returned: whether it failed, and the mapping
\* when it did not
Returned ==
  [failed |-> ~err.isNil, kvs |-> IF err.isNil THEN result.kvs ELSE EmptyMap]

\* what a call with the same existing mapping returns for the file f
ReturnedFor(f) ==
  LET o == PfmOutcome(existingKVs, f)
  IN IF o.failed THEN [failed |-> TRUE, kvs |-> EmptyMap] ELSE o

\* the line is "#" alone, or "#" followed by white space only
IsEmptyHashLine(line) == TrimSpace(line) = <<"#">>

EmptyHashIdx == {i \in 1..Len(file.lines) : IsEmptyHashLine(file.lines[i])}

NotEmptyHashLine(line) == ~IsEmptyHashLine(line)

\* the file without its empty "#" lines
WithoutEmptyHashLines == [file EXCEPT !.lines = SelectSeq(file.lines, NotEmptyHashLine)]

\* C22 as stated: a finished call on a file that has a line that is "#"
\* alone, or "#" followed by white space only, has failed with a parse error.
C22_EmptyDirectiveFails ==
  (pc = "done" /\ EmptyHashIdx # {}) => ParseFailed

\* C22 amended: a line that is "#" alone, or "#" followed by white space
\* only, is a comment. It gives no directive and no parse error, and a
\* finished call on a file with such lines returns what it returns for the
\* file without them.
C22_EmptyDirectiveIsComment ==
  /\ (pc = "parsed" /\ EmptyHashIdx # {}) =>
       \A n \in 1..Len(envFile.Directives) :
         envFile.Directives[n].Line \notin EmptyHashIdx
  /\ (pc = "done" /\ EmptyHashIdx # {}) =>
       /\ ~ParseFailed
       /\ Returned = ReturnedFor(WithoutEmptyHashLines)

\* a file with a bare "#" line and an assignment has been merged without an
\* error, and the assignment is in the returned mapping
C22_Witness ==
  /\ pc = "done"
  /\ err.isNil
  /\ \E i \in EmptyHashIdx : file.lines[i] = <<"#">>
  /\ \E i \in EmptyHashIdx : file.lines[i] # <<"#">>
  /\ \E i \in AssignIdx : result.kvs[KeyAt(i)] = RawAt(i)

\* the trimmed line begins with "#" and some character other than a space
\* follows the "#"
HashDirective(line) ==
  LET l == TrimSpace(line)
  IN Len(l) >= 2 /\ l[1] = "#" /\ l[2] # " "

HashDirectiveIdx == {i \in 1..Len(file.lines) : HashDirective(file.lines[i])}

\* the line does not begin with "#", or it is a directive
NotHashComment(line) ==
  LET l == TrimSpace(line)
  IN (l # <<>> /\ l[1] = "#") => HashDirective(line)

HashCommentIdx == {i \in 1..Len(file.lines) : ~NotHashComment(file.lines[i])}

\* the file without its "#" lines that are comments
WithoutHashComments == [file EXCEPT !.lines = SelectSeq(file.lines, NotHashComment)]

\* C23 as stated: when the file has been parsed, every directive comes from a
\* line whose "#" is followed at once by a character that is neither white
\* space nor "#".
C23_DirectiveNeedsNameAtHash ==
  pc = "parsed" =>
    \A n \in 1..Len(envFile.Directives) :
      LET l == TrimSpace(file.lines[envFile.Directives[n].Line])
      IN Len(l) >= 2 /\ l[1] = "#" /\ ~IsSpace(l[2]) /\ l[2] # "#"

\* C23 amended: a line whose first character other than white space is "#" is
\* a directive exactly when the "#" is not followed by a space and some
\* character other than white space comes after it; a tab after the "#" or a
\* second "#" does not make it a comment. The directive's name is the first
\* field of the text after the first "#", its arguments are the other
\* fields. The other "#" lines ("# text", "#" alone) are comments: a finished
\* call returns what it returns for the file without them, and no parse
\* fails.
C23_DirectiveUnlessHashSpace ==
  /\ pc = "parsed" =>
       /\ Len(envFile.Directives) = Cardinality(HashDirectiveIdx)
       /\ {envFile.Directives[n].Line : n \in 1..Len(envFile.Directives)} = HashDirectiveIdx
       /\ \A n \in 1..Len(envFile.Directives) :
            LET d == envFile.Directives[n]
                parts == Fields(Tail(TrimSpace(file.lines[d.Line])))
            IN d.Name = parts[1] /\ d.Arguments = Tail(parts)
  /\ (pc = "done" /\ file.exists) =>
       /\ ~ParseFailed
       /\ HashCommentIdx # {} => Returned = ReturnedFor(WithoutHashComments)

\* the only "#" line of the file has a tab between "#" and "remove A", and
\* the call has deleted the existing key A
C23_Witness ==
  /\ pc = "done"
  /\ err.isNil
  /\ <<"A">> \in DOMAIN existingKVs
  /\ <<"A">> \notin DOMAIN result.kvs
  /\ \E i \in 1..Len(file.lines) :
       /\ file.lines[i][1] = "#"
       /\ file.lines[i][2] = "\t"
       /\ \A j \in 1..Len(file.lines) : j # i => file.lines[j][1] # "#"

----------------------------------------------------------------------------
(* Files of one line A=<raw value>, the raw value over quotes, backslash,
   a letter and a space *)

MaxRawLen == 4

QuoteChars == {"\"", "'", "\\", "a", " "}

RawPool == SeqsUpTo(QuoteChars, MaxRawLen)

InitQuote ==
  /\ existingKVs = EmptyMap
  /\ file \in {[exists |-> TRUE, lines |-> <<(<<"A","=">> \o raw)>>] : raw \in RawPool}
  /\ pc = "start"
  /\ PfmIdle
  /\ sources = <<>>
  /\ options = [Format |-> "json"]
  /\ idx = 0
  /\ variablesMap = EmptyMap
  /\ xpc = "direct"
  /\ execErr = NoErr
  /\ output = NilMap

SpecQuote == InitQuote /\ [][Next]_vars

\* the text after the "=" of the one line of the file
TheRaw == SubSeq(file.lines[1], 3, Len(file.lines[1]))

\* the text strictly between the first and the last character
Inner(t) == SubSeq(t, 2, Len(t) - 1)

\* the line is wrapped in one pair of the quote character q
Wrapped(t, q) == Len(t) >= 2 /\ t[1] = q /\ t[Len(t)] = q

\* C24: when the one-line file A=<raw> has been parsed, the emitted value is,
\* for a trimmed raw value wrapped in a pair of double quotes, the text
\* between its first and last character with every \" replaced by ", for one
\* wrapped in a pair of single quotes the text between them with every \'
\* replaced by ', and the trimmed raw value otherwise.
C24_UnquoteOnePair ==
  (pc = "parsed" /\ Len(file.lines) = 1 /\ SubSeq(file.lines[1], 1, 2) = <<"A","=">>) =>
    LET t == TrimSpace(TheRaw)
    IN /\ Len(envFile.Variables) = 1
       /\ envFile.Variables[1].Value =
            IF Wrapped(t, "\"") THEN ReplaceAll(Inner(t), <<"\\","\"">>, <<"\"">>)
            ELSE IF Wrapped(t, "'") THEN ReplaceAll(Inner(t), <<"\\","'">>, <<"'">>)
            ELSE t

\* t without the characters q at its two ends, however many there are
StripAll(t, q) ==
  LET other == {i \in 1..Len(t) : t[i] # q}
  IN IF other = {} THEN <<>>
     ELSE SubSeq(t, CHOOSE i \in other : \A j \in other : i <= j,
                    CHOOSE i \in other : \A j \in other : j <= i)

\* C24 amended: when the one-line file A=<raw> has been parsed, the emitted
\* value is, for a trimmed raw value that begins and ends with a double quote
\* (be it the same character), the value without all the double quotes at
\* its two ends and then with every \" replaced by "; likewise for single
\* quotes and \'; and the trimmed raw value otherwise.
C24_UnquoteStripsAllQuotes ==
  (pc = "parsed" /\ Len(file.lines) = 1 /\ SubSeq(file.lines[1], 1, 2) = <<"A","=">>) =>
    LET t == TrimSpace(TheRaw)
    IN /\ Len(envFile.Variables) = 1
       /\ envFile.Variables[1].Value =
            IF t # <<>> /\ t[1] = "\"" /\ t[Len(t)] = "\""
            THEN ReplaceAll(StripAll(t, "\""), <<"\\","\"">>, <<"\"">>)
            ELSE IF t # <<>> /\ t[1] = "'" /\ t[Len(t)] = "'"
            THEN ReplaceAll(StripAll(t, "'"), <<"\\","'">>, <<"'">>)
            ELSE t

\* the raw value is a pair of double quotes around a text that ends with an
\* escaped double quote, and the call has returned the text with its
\* backslash and without any quote
C24_Witness ==
  /\ pc = "done"
  /\ err.isNil
  /\ LET t == TrimSpace(TheRaw)
     IN /\ Wrapped(t, "\"")
        /\ HasSuffix(Inner(t), <<"\\","\"">>)
        /\ result.kvs[<<"A">>] = StripAll(t, "\"")
        /\ HasSuffix(result.kvs[<<"A">>], <<"\\">>)

----------------------------------------------------------------------------
(* Files whose emitted values are written back as raw values *)

ReparseLinePool ==
  { <<"A","=","1">>,
    <<"B","=">> \o Ref(<<"A">>),
    <<"C","=">> \o Ref(<<"B">>),
    <<"C","=">> \o Ref(<<"C">>),
    <<"B","=","'">> \o Ref(<<"N">>) \o <<"'">>,
    <<"A","=","\"","'","x","'","\"">>,
    <<"A","=","\"","'","x","\"">>,
    <<"A","=","\""," ","x"," ","\"">> }

ReparseExistingPool ==
  { EmptyMap,
    (<<"N">> :> <<"e">>) }

InitReparse ==
  /\ existingKVs \in ReparseExistingPool
  /\ file \in Files(ReparseLinePool)
  /\ pc = "start"
  /\ PfmIdle
  /\ sources = <<>>
  /\ options = [Format |-> "json"]
  /\ idx = 0
  /\ variablesMap = EmptyMap
  /\ xpc = "direct"
  /\ execErr = NoErr
  /\ output = NilMap

SpecReparse == InitReparse /\ [][Next]_vars

\* the file with the raw value of line i replaced by the value emitted for it
WrittenBack(i) ==
  [file EXCEPT !.lines[i] = KeyAt(i) \o <<"=">> \o VariableOf(i).Value]

\* the value that parsing the written-back file emits for line i
Reparsed(i) ==
  parseEnvFile(WrittenBack(i)).envFile.Variables[
    Cardinality({j \in 1..i : IsAssignmentLine(TrimSpace(file.lines[j]))})].Value

\* v has no white space at its ends, does not begin and end with the same
\* quote character, and refers to no key that the file assigns
Stable(v) ==
  /\ TrimSpace(v) = v
  /\ ~(v # <<>> /\ v[1] = v[Len(v)] /\ v[1] \in {"\"", "'"})
  /\ RefNames(v) \cap FileAssigned = {}

\* C25 as stated: when a file without directives has been parsed, writing the
\* emitted value of any of its assignments back as the raw value of that line
\* and parsing the file again emits the same value for the line.
C25_ReparseAlwaysSame ==
  (pc = "parsed" /\ envFile.Directives = <<>>) =>
    \A i \in AssignIdx : Reparsed(i) = VariableOf(i).Value

\* C25 amended: when a file without directives has been parsed, writing the
\* emitted value of an assignment back as the raw value of that line and
\* parsing the file again emits the same value for the line, provided the
\* emitted value has no white space at its ends, does not begin and end with
\* the same quote character, and holds no reference to a key that the file
\* assigns.
C25_ReparseSameWhenStable ==
  (pc = "parsed" /\ envFile.Directives = <<>>) =>
    \A i \in AssignIdx :
      Stable(VariableOf(i).Value) => Reparsed(i) = VariableOf(i).Value

\* a value that lost its quotes and still begins with a quote of the other
\* kind, and a value that is an unresolved reference, were returned, and
\* parsing them again emits them unchanged
C25_Witness ==
  /\ pc = "done"
  /\ err.isNil
  /\ \E i, j \in AssignIdx :
       /\ i = LastLineOf(KeyAt(i))
       /\ j = LastLineOf(KeyAt(j))
       /\ VariableOf(i).Value = <<"'","x">>
       /\ VariableOf(j).Value = Ref(<<"N">>)
       /\ AssignedRaw(TrimSpace(file.lines[j])) # Ref(<<"N">>)
       /\ Stable(VariableOf(i).Value) /\ Stable(VariableOf(j).Value)
       /\ result.kvs[KeyAt(i)] = Reparsed(i)
       /\ result.kvs[KeyAt(j)] = Reparsed(j)

----------------------------------------------------------------------------
(* Files that state the same remove and filter arguments in several ways *)

ArgsLinePool ==
  { <<"A","=","1">>,
    <<"#">> \o KwRemove \o SP \o <<"A">> \o SP \o <<"B">>,
    <<"#">> \o KwRemove \o SP \o <<"B">> \o SP \o <<"A">>,
    <<"#">> \o KwRemove \o SP \o <<"A">>,
    <<"#">> \o KwRemove \o SP \o <<"B">> \o SP \o <<"B">>,
    <<"#">> \o KwFilter \o SP \o <<"a","*">> \o SP \o <<"B">>,
    <<"#">> \o KwFilter \o SP \o <<"B">>,
    <<"#">> \o KwFilter \o SP \o <<"a","*">> }

ArgsExistingPool ==
  { EmptyMap,
    (<<"A">> :> <<"e">>) @@ (<<"B">> :> <<"e">>),
    (<<"A">> :> <<"e">>) @@ (<<"B">> :> <<"e">>) @@ (<<"a","b">> :> <<"e">>),
    (<<"a">> :> <<"e">>) @@ (<<"a","b">> :> <<"e">>) @@ (<<"C">> :> <<"e">>) }

InitArgs ==
  /\ existingKVs \in ArgsExistingPool
  /\ file \in Files(ArgsLinePool)
  /\ pc = "start"
  /\ PfmIdle
  /\ sources = <<>>
  /\ options = [Format |-> "json"]
  /\ idx = 0
  /\ variablesMap = EmptyMap
  /\ xpc = "direct"
  /\ execErr = NoErr
  /\ output = NilMap

SpecArgs == InitArgs /\ [][Next]_vars

\* the elements of a set of strings, one after the other in some fixed order
RECURSIVE SetToSeq(_)
SetToSeq(S) ==
  IF S = {} THEN <<>>
  ELSE LET x == CHOOSE y \in S : TRUE
       IN <<x>> \o SetToSeq(S \ {x})

\* the line is a directive of the name kw
IsNamedLine(line, kw) ==
  /\ IsDirectiveLine(TrimSpace(line))
  /\ ToLower(NameOnLine(line)) = kw

NotRemoveOrFilterLine(line) ==
  ~IsNamedLine(line, KwRemove) /\ ~IsNamedLine(line, KwFilter)

\* one directive line of the name kw for a set of arguments; no line when the
\* set is empty
OneDirective(kw, args) ==
  IF args = {} THEN <<>> ELSE << <<"#">> \o kw \o JoinFields(SetToSeq(args)) >>

\* the file with its remove directives replaced by one remove directive that
\* has each of their arguments once, and likewise its filter directives
ArgSetForm ==
  LET D == parseEnvFile(file).envFile.Directives
  IN [file EXCEPT !.lines =
        SelectSeq(file.lines, NotRemoveOrFilterLine)
        \o OneDirective(KwRemove, ArgsOf(D, KwRemove))
        \o OneDirective(KwFilter, ArgsOf(D, KwFilter))]

\* the lines of the file that are directives of the name kw
NamedIdx(kw) == {i \in 1..Len(file.lines) : IsNamedLine(file.lines[i], kw)}

\* C26: a finished call on a readable file returns what the call returns for
\* the file whose remove directives are replaced by a single remove directive
\* carrying each of their arguments once, and whose filter directives are
\* replaced likewise. So two files that differ only in how the same set of
\* remove arguments and the same set of filter arguments is spread over
\* directives, ordered or repeated, give the same result.
C26_ArgumentSetOnly ==
  (pc = "done" /\ file.exists) => Returned = ReturnedFor(ArgSetForm)

\* the file removes A on one line and B, twice, on another, the existing
\* mapping has both, and the call has returned a mapping without them
C26_Witness ==
  /\ pc = "done"
  /\ err.isNil
  /\ Cardinality(NamedIdx(KwRemove)) = 2
  /\ \E i, j \in NamedIdx(KwRemove) :
       /\ i < j
       /\ Fields(file.lines[i]) = << <<"#">> \o KwRemove, <<"A">> >>
       /\ Fields(file.lines[j]) = << <<"#">> \o KwRemove, <<"B">>, <<"B">> >>
  /\ {<<"A">>, <<"B">>} \subseteq DOMAIN existingKVs
  /\ <<"A">> \notin DOMAIN result.kvs
  /\ <<"B">> \notin DOMAIN result.kvs
  /\ file # ArgSetForm

----------------------------------------------------------------------------
(* The mapping passed to ProcessFileWithMerge *)

\* C27: no step of a call of ProcessFileWithMerge changes the existing
\* mapping, whether the call ends with a mapping or with an error: the remove
\* stage deletes from a copy, the overlay writes a new mapping, filter and
\* filter-unless delete from copies; and once the remove stage has handed
\* over its mapping, no later stage changes that either.
C27_ExistingNeverModified ==
  [][ /\ existingKVs' = existingKVs
      /\ (pc \notin {"start", "parsed"} => processedKVs' = processedKVs) ]_vars

\* a call has ended, a remove directive and a filter have deleted keys of the
\* existing mapping from what is returned or the call has failed on a
\* require, and the existing mapping still has those keys
C27_Witness ==
  /\ pc = "done"
  /\ ~ParseFailed
  /\ \E k \in DOMAIN existingKVs : Removed(k) /\ k \notin DOMAIN processedKVs
  /\ \E k \in DOMAIN existingKVs : ~Removed(k) /\ Filtered(k) /\ k \notin DOMAIN mergedVars
  /\ ~err.isNil
  /\ result = NilMap

----------------------------------------------------------------------------
(* The loops "for key := range kvs { ... delete(kvs, key) }" under every
   order in which the keys of the mapping can come up *)

\* the orders in which a loop can meet the keys of a set
Perms(S) ==
  {o \in [1..Cardinality(S) -> S] : \A i, j \in 1..Cardinality(S) : i # j => o[i] # o[j]}

\* a loop that stops at its first deletion
RECURSIVE RangeDeleteStops(_, _, _)
RangeDeleteStops(kvs, order, hit) ==
  IF order = <<>> THEN kvs
  ELSE IF Head(order) \in DOMAIN kvs /\ Head(order) \in hit
       THEN MapDelete(kvs, {Head(order)})
       ELSE RangeDeleteStops(kvs, Tail(order), hit)

\* one loop over the mapping in the given order: a key is met when it is
\* still in the mapping, and deleted when the loop's test holds for it
RECURSIVE RangeDelete(_, _, _)
RangeDelete(kvs, order, hit) ==
  IF order = <<>> THEN kvs
  ELSE IF Head(order) \in DOMAIN kvs /\ Head(order) \in hit
       THEN RangeDelete(MapDelete(kvs, {Head(order)}), Tail(order), hit)
       ELSE RangeDelete(kvs, Tail(order), hit)

\* applyRemoveDirective: the mappings it can leave, one loop per argument
RECURSIVE removeOutcomes(_, _)
removeOutcomes(kvs, arguments) ==
  IF arguments = <<>> THEN {kvs}
  ELSE UNION { removeOutcomes(
                 RangeDelete(kvs, o, {key \in DOMAIN kvs : EqualFold(key, Head(arguments))}),
                 Tail(arguments))
               : o \in Perms(DOMAIN kvs) }

\* applyRemoveDirectives
RECURSIVE removeAllOutcomes(_, _)
removeAllOutcomes(kvs, directives) ==
  IF directives = <<>> THEN {kvs}
  ELSE IF ToLower(Head(directives).Name) = KwRemove
       THEN UNION { removeAllOutcomes(m, Tail(directives))
                    : m \in removeOutcomes(kvs, Head(directives).Arguments) }
       ELSE removeAllOutcomes(kvs, Tail(directives))

\* applyFilterDirective
RECURSIVE filterOutcomes(_, _)
filterOutcomes(kvs, arguments) ==
  IF arguments = <<>> THEN {kvs}
  ELSE UNION { filterOutcomes(
                 RangeDelete(kvs, o, {key \in DOMAIN kvs : matchesPattern(key, Head(arguments))}),
                 Tail(arguments))
               : o \in Perms(DOMAIN kvs) }

\* applyFilterDirectives
RECURSIVE filterAllOutcomes(_, _)
filterAllOutcomes(kvs, directives) ==
  IF directives = <<>> THEN {kvs}
  ELSE IF ToLower(Head(directives).Name) = KwFilter
       THEN UNION { filterAllOutcomes(m, Tail(directives))
                    : m \in filterOutcomes(kvs, Head(directives).Arguments) }
       ELSE filterAllOutcomes(kvs, Tail(directives))

\* applyFilterUnlessDirectives: keysToKeep is filled by one loop, the keys
\* outside it are deleted by a second
filterUnlessOutcomes(kvs, directives) ==
  LET patterns == allPatterns(directives)
      keysToKeep == {key \in DOMAIN kvs :
                       \E n \in 1..Len(patterns) : matchesPattern(key, patterns[n])}
  IN IF Len(patterns) = 0 THEN {kvs}
     ELSE {RangeDelete(kvs, o, DOMAIN kvs \ keysToKeep) : o \in Perms(DOMAIN kvs)}

OrderLinePool ==
  { <<"B","=","1">>,
    <<"#">> \o KwRemove \o SP \o <<"A">>,
    <<"#">> \o KwFilter \o SP \o <<"a","*">> \o SP \o <<"1","a">>,
    <<"#">> \o KwFilterUnless \o SP \o <<"*","b">>,
    <<"#">> \o KwFilterUnless \o SP \o <<"a">>,
    <<"#">> \o KwRequire \o SP \o <<"A","B">> \o SP \o <<"a">> }

InitOrder == DirectCall(OrderLinePool)

SpecOrder == InitOrder /\ [][Next]_vars

\* C28: whatever the order in which each loop meets the keys of the mapping
\* it deletes from, the remove stage, the filter stage and the filter-unless
\* stage can leave one mapping only, the one the call goes on with; so what
\* the call returns is fixed by the existing mapping and the file.
C28_IterationOrderIrrelevant ==
  [][ /\ (pc = "parsed" /\ pc' = "removed") =>
           removeAllOutcomes(existingKVs, envFile.Directives) = {processedKVs'}
      /\ (pc = "merged" /\ pc' = "filtered") =>
           filterAllOutcomes(mergedVars, envFile.Directives) = {mergedVars'}
      /\ (pc = "filtered" /\ pc' = "kept") =>
           filterUnlessOutcomes(mergedVars, envFile.Directives) = {mergedVars'}
      /\ (pc = "kept" /\ pc' = "done") =>
           Returned' = ReturnedFor(file) ]_vars

\* a call on a mapping of three keys has ended; one remove argument deleted
\* two of them in one loop, and the mapping returned is not empty
C28_Witness ==
  /\ pc = "done"
  /\ err.isNil
  /\ Cardinality(DOMAIN existingKVs) = 3
  /\ \E a \in ArgsOf(envFile.Directives, KwRemove) :
       Cardinality({k \in DOMAIN existingKVs : EqualFold(k, a)}) = 2
  /\ DOMAIN processedKVs # DOMAIN existingKVs
  /\ DOMAIN result.kvs # {}

----------------------------------------------------------------------------
(* Lists of sources in which env sources delete and require keys that other
   sources assign *)

StickySourcePool ==
  { Source("env", "ok", << <<"#">> \o KwRequire \o SP \o <<"A">>, <<"B","=","1">> >>, EmptyMap),
    Source("env", "ok", << <<"#">> \o KwRemove \o SP \o <<"a">> >>, EmptyMap),
    Source("env", "ok", << <<"#">> \o KwFilter \o SP \o <<"a","*">> >>, EmptyMap),
    Source("env", "ok", << <<"#">> \o KwFilterUnless \o SP \o <<"b","*">> >>, EmptyMap),
    Source("json", "ok", <<>>, PriorityDoc),
    Source("yaml", "ok", <<>>, (<<"b">> :> Str(<<"y">>))),
    Source("sops", "ok", <<>>, PrioritySopsDoc),
    Source("toml", "ok", <<>>, EmptyMap) }

InitSticky ==
  /\ sources \in SeqsUpTo(StickySourcePool, MaxSources)
  /\ options = [Format |-> "env"]
  /\ idx = 0
  /\ variablesMap = EmptyMap
  /\ xpc = "start"
  /\ execErr = NoErr
  /\ output = NilMap
  /\ existingKVs = EmptyMap
  /\ file = NoFile
  /\ pc = "idle"
  /\ PfmIdle

SpecSticky == InitSticky /\ [][NextExec]_vars

\* source n assigns key k
AssignsKey(n, k) == \E v \in SourceAssigns(sources[n]) : v.Key = k

\* a filter or filter-unless directive of source n deletes key k, also when
\* source n assigns it
MutesKey(n, k) ==
  /\ sources[n].Type = "env"
  /\ sources[n].status = "ok"
  /\ LET D == parseEnvFile([exists |-> TRUE, lines |-> sources[n].lines]).envFile.Directives
     IN \/ \E q \in ArgsOf(D, KwFilter) : matchesPattern(k, q)
        \/ /\ ArgsOf(D, KwFilterUnless) # {}
           /\ \A q \in ArgsOf(D, KwFilterUnless) : ~matchesPattern(k, q)

\* after source n the key k is in the mapping, whatever was there before
SetsKey(n, k) == AssignsKey(n, k) /\ ~MutesKey(n, k)

\* after source n the key k is not in the mapping, whatever was there before
ClearsKey(n, k) ==
  \/ MutesKey(n, k)
  \/ SourceDeletes(sources[n], k) /\ ~AssignsKey(n, k)

\* source i deletes key k: a source before it has put k into the mapping, k
\* is still there when source i is read, and source i takes it out
DeletedAt(i, k) ==
  /\ ClearsKey(i, k)
  /\ \E h \in 1..(i - 1) :
       SetsKey(h, k) /\ \A l \in (h + 1)..(i - 1) : ~ClearsKey(l, k)

\* a source after i puts k into the mapping and no source after that one
\* takes it out
SetAgainAfter(i, k) ==
  \E j \in (i + 1)..Len(sources) :
    SetsKey(j, k) /\ \A l \in (j + 1)..Len(sources) : ~ClearsKey(l, k)

StickyKeys == UNION {{v.Key : v \in SourceAssigns(sources[n])} : n \in 1..Len(sources)}

\* C29: in a run that emits its output, a key that env source i deleted is in
\* the output iff a source after i assigns it and no env source after that
\* one deletes it; and a key that source j assigns, and that no source after
\* j assigns or deletes, is in the output with the value from source j,
\* whatever the directives of the sources before j say.
C29_DeletionsNotSticky ==
  (xpc = "done" /\ ~output.isNil) =>
    /\ \A i \in 1..Len(sources) :
         \A k \in StickyKeys :
           DeletedAt(i, k) => (k \in DOMAIN output.kvs <=> SetAgainAfter(i, k))
    /\ \A j \in 1..Len(sources) :
         \A k \in StickyKeys :
           ( /\ SetsKey(j, k)
             /\ \A l \in (j + 1)..Len(sources) : ~ClearsKey(l, k) /\ ~AssignsKey(l, k) )
           => /\ k \in DOMAIN output.kvs
              /\ [Key |-> k, Value |-> output.kvs[k]] \in SourceAssigns(sources[j])

\* a run has emitted a key that the second source, an env source, deleted
\* and the third source assigned again
C29_Witness ==
  /\ xpc = "done"
  /\ ~output.isNil
  /\ Len(sources) = 3
  /\ \E k \in StickyKeys :
       /\ DeletedAt(2, k)
       /\ SourceDeletes(sources[2], k)
       /\ SetsKey(3, k)
       /\ k \in DOMAIN output.kvs
       /\ [Key |-> k, Value |-> output.kvs[k]] \in SourceAssigns(sources[3])

\* env source n has a require directive with the argument k
RequiredBy(n, k) ==
  /\ sources[n].Type = "env"
  /\ sources[n].status = "ok"
  /\ k \in ArgsOf(parseEnvFile([exists |-> TRUE, lines |-> sources[n].lines]).envFile.Directives,
                  KwRequire)

\* source i requires k, a later env source deletes k, and no source after
\* that one assigns it
RequiredThenDeleted(k) ==
  \E i \in 1..Len(sources) :
    \E l \in (i + 1)..Len(sources) :
      /\ RequiredBy(i, k)
      /\ DeletedAt(l, k)
      /\ ~SetAgainAfter(l, k)

\* C30: a run in which env source i requires a key, a later env source
\* deletes it, and every source has been read, ends without error and emits
\* an output without the key: the requirement of source i is not looked at
\* again; and the call for the deleting source itself returns no error and a
\* mapping without the key.
C30_RequireNotRechecked ==
  /\ (xpc = "done" /\ idx > Len(sources)) =>
       \A k \in StickyKeys :
         RequiredThenDeleted(k) =>
           /\ execErr.isNil
           /\ ~output.isNil
           /\ k \notin DOMAIN output.kvs
  /\ (xpc = "inEnv" /\ pc = "done") =>
       \A k \in StickyKeys :
         ( /\ \E i \in 1..(idx - 1) : RequiredBy(i, k)
           /\ DeletedAt(idx, k)
           /\ \A a \in StickyKeys : ~RequiredBy(idx, a) )
         => err.isNil /\ k \notin DOMAIN result.kvs

\* a run has ended without error: its second source required A and found it,
\* its third source deleted A, and the output has no A
C30_Witness ==
  /\ xpc = "done"
  /\ execErr.isNil
  /\ ~output.isNil
  /\ Len(sources) = 3
  /\ AssignsKey(1, <<"A">>)
  /\ RequiredBy(2, <<"A">>)
  /\ DeletedAt(3, <<"A">>)
  /\ <<"A">> \notin DOMAIN output.kvs
  /\ <<"B">> \in DOMAIN output.kvs

====
